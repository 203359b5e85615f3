---------------------------- MODULE MCGoroutines ----------------------------
(* One spawned goroutine fills a limit of one, so that a further spawn is
   refused.  Three blocking operations let a wait be entered, answered and
   entered again while the timer of the first is armed.  One event puts a
   failure, a native call, a close, a callback or a cancellation at every
   point. *)
EXTENDS Goroutines

\* A receive, a send, the empty select, selects with a send, alone and next to a
\* foreign channel or a default, and a range.
MCOps ==
    LET Op(form, cases) == [form |-> form, cases |-> cases]
    IN UNION {{Op("plain", {<<"recv", c>>}), Op("plain", {<<"send", c>>}), EmptySelect,
               Op("select", {<<"send", c>>}), Op("select", {<<"send", c>>, <<"recv", ForeignChan>>}),
               Op("range", {<<"recv", c>>})} : c \in Chans}
=============================================================================
