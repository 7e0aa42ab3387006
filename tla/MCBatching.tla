----------------------------- MODULE MCBatching -----------------------------
(***************************************************************************)
(* Small instances of Batching for TLC.                                    *)
(***************************************************************************)
EXTENDS Batching

\* Two labels of one name and one of another: the set {1, 3} is named in two orders;
\* <<1, 2>> is refused, as is the reserved token 4.
Names == <<"env", "env", "zone", "workload">>

Plain(kind, metric, args, value, at) ==
    [kind |-> kind, metric |-> metric, args |-> args, value |-> value,
     id |-> 0, item |-> 0, at |-> at]

Seen(kind, args, id, item) ==
    [kind |-> kind, metric |-> kind, args |-> args, value |-> 0,
     id |-> id, item |-> item, at |-> 1]

\* With 4 quanta to 1: a quarter more than 1 and a half of one series in two orders, at
\* two moments; a whole number of a second one; readings that rise by a fraction, fall
\* and rise by too much, and readings of a second series.
CounterCalls ==
    {Plain("counter", "hits", <<1, 3>>, 5, 2), Plain("counter", "hits", <<3, 1>>, 2, 1),
     Plain("counter", "errors", << >>, 8, 1),
     Plain("total", "hits", <<3, 1>>, 3, 1), Plain("total", "hits", <<1, 3>>, 10, 3),
     Plain("total", "hits", <<1, 3>>, 22, 2), Plain("total", "bytes", << >>, 4, 1)}

\* Calls the client refuses: a name twice, the reserved name, a value too large or
\* below 0.
RefusedCalls ==
    {Plain("counter", "hits", <<1, 2>>, 1, 1), Plain("counter", "hits", <<4>>, 1, 1),
     Plain("counter", "errors", << >>, 9, 1), Plain("counter", "errors", << >>, -1, 1),
     Plain("total", "hits", << >>, -1, 1), Plain("value", "ms", << >>, 5, 1)}

\* A person with labels in two orders, another person; two items of one person.
OtherCalls ==
    {Seen("unique", <<1, 3>>, 1, 0), Seen("unique", <<3, 1>>, 1, 0),
     Seen("unique", <<1, 3>>, 2, 0), Seen("top", << >>, 1, 1), Seen("top", << >>, 1, 2),
     Plain("value", "ms", << >>, 3, 1), Plain("success", "ok", << >>, 0, 1)}

AllCalls == CounterCalls \cup RefusedCalls \cup OtherCalls

=============================================================================
