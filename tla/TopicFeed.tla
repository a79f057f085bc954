-------------------------------- MODULE TopicFeed --------------------------------
(***************************************************************************)
(* What a topic promises its subscriber, without frames, queues, sequence  *)
(* numbers or processes: while the feed is on, the subscriber is shown the *)
(* states it was told of in their order, and ends at the last of them.     *)
(*                                                                         *)
(* A state may be skipped only by one told later; a state already on its   *)
(* way is not taken back.  While the feed is off, from an ask to the       *)
(* snapshot that answers it, the subscriber may be shown anything.         *)
(***************************************************************************)
EXTENDS Sequences, SequencesExt

CONSTANT States

VARIABLES
    on,      \* the subscription is established
    told,    \* the state last announced
    shown,   \* the state the subscriber shows
    coming   \* the states on their way to it, in order

vars == <<on, told, shown, coming>>

\* What the subscriber shows once everything on its way has arrived.
Upshot(s, c) == IF c = <<>> THEN s ELSE Last(c)

Init == ~on /\ told \in States /\ shown \in States /\ coming = <<>>

\* A new state is announced: it comes last, in place of some that were only queued.
Tell ==
    /\ on /\ on'
    /\ UNCHANGED shown
    /\ \E next \in {coming'} :
          next # <<>> /\ Last(next) = told' /\ IsPrefix(Front(next), coming)

Show ==
    /\ on /\ on'
    /\ UNCHANGED told
    /\ \E next \in {coming'} : coming = <<shown'>> \o next

\* The feed comes on only with everything told on its way or shown.
Establish == ~on /\ on' /\ Upshot(shown', coming') = told'

\* It goes off when the shell asks again or either end goes.
Break == on /\ ~on'

Unknown == ~on /\ ~on'

Next == Tell \/ Show \/ Establish \/ Break \/ Unknown

Spec == Init /\ [][Next]_vars
=============================================================================
