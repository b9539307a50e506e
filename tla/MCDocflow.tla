----------------------------- MODULE MCDocflow ------------------------------
(* Nets and settings for model checking Docflow.                           *)
EXTENDS Docflow

Elem(k, fl, j, xs) == [kind |-> k, flows |-> fl, split |-> "none", join |-> j, executors |-> xs,
                     starts |-> {}, ends |-> {}]
To(e) == [into |-> e, when |-> 0]
If(v, e) == [into |-> e, when |-> v]

\* fork: two tasks of one user each, joined by a task of a codelet.
\* vote: a task of two users, a choice, and a net as executor.
SmallNets ==
  [fork_in   |-> Elem("input", <<To("left"), To("right")>>, FALSE, <<>>),
   left      |-> [Elem("task", <<To("join")>>, FALSE, <<"ann">>) EXCEPT !.ends = {1}],
   right     |-> Elem("task", <<To("join")>>, FALSE, <<"bob">>),
   join      |-> [Elem("task", <<To("fork_out")>>, TRUE, <<"codelet">>) EXCEPT !.starts = {1, 2}],
   fork_out  |-> Elem("output", <<>>, FALSE, <<>>),
   vote_in   |-> Elem("input", <<To("vote")>>, FALSE, <<>>),
   vote      |-> [Elem("task", <<If(1, "more"), If(2, "vote_out")>>, FALSE, <<"ann", "bob">>)
                    EXCEPT !.split = "XOR"],
   more      |-> Elem("task", <<To("vote_out")>>, FALSE, <<"ask">>),
   vote_out  |-> Elem("output", <<>>, FALSE, <<>>),
   pair_in   |-> Elem("input", <<To("pair")>>, FALSE, <<>>),
   pair      |-> Elem("task", <<To("pair_out")>>, FALSE, <<"ann", "bob">>),
   pair_out  |-> Elem("output", <<>>, FALSE, <<>>),
   ask_in    |-> [Elem("input", <<To("once")>>, FALSE, <<>>) EXCEPT !.starts = {1}],
   once      |-> Elem("task", <<To("note")>>, FALSE, <<"ann">>),
   note      |-> [Elem("task", <<To("ask_out")>>, FALSE, <<>>) EXCEPT !.ends = {1, 2}],
   ask_out   |-> [Elem("output", <<>>, FALSE, <<>>) EXCEPT !.ends = {3}]]
SmallInputs == [pair |-> "pair_in", fork |-> "fork_in", vote |-> "vote_in", ask |-> "ask_in"]

Plain == [net |-> "fork", doc |-> TRUE, patient |-> TRUE, sends |-> 1, answers |-> 1, stops |-> 0,
          stale |-> FALSE, crashes |-> 0]
Vote  == [Plain EXCEPT !.net = "vote", !.doc = FALSE]
Hasty == [Plain EXCEPT !.patient = FALSE]
Pair  == [Hasty EXCEPT !.net = "pair", !.answers = 2]
Stopping == [Plain EXCEPT !.patient = FALSE, !.stops = 1, !.stale = TRUE]
StopVote == [Stopping EXCEPT !.net = "vote", !.patient = TRUE]
StopPair == [Stopping EXCEPT !.net = "pair", !.stale = FALSE]
StopDying == [Stopping EXCEPT !.net = "ask", !.stale = FALSE, !.crashes = 1]
Dying == [Plain EXCEPT !.crashes = 1]
Resend == [Plain EXCEPT !.net = "ask", !.sends = 2]
SomeSettings == {Resend, Plain, Vote, Hasty, Pair, Stopping, StopVote, StopPair, StopDying, Dying}
OnlyPair == {[Pair EXCEPT !.answers = 1]}
OnlyAsk == {[Plain EXCEPT !.net = "ask"]}
=============================================================================
