----------------------------------- MODULE Pairing -----------------------------------
(***************************************************************************)
(* What the bridge between the game's WebView and the browser promises:    *)
(* a pairing is opened once, decided at most once, and taken away once; a  *)
(* decision is never revised, and what is gone stays gone.  Module SignIn, *)
(* with its callbacks, polls and expiring rows, is shown to implement it.  *)
(***************************************************************************)
CONSTANTS Pages, None
VARIABLE phase

New == [st |-> "new", url |-> None]
Opened == [st |-> "pending", url |-> None]
Gone == [st |-> "gone", url |-> None]

Init == phase = [w \in Pages |-> New]

Put(w, x) == phase' = [phase EXCEPT ![w] = x]

Open(w) == phase[w] = New /\ Put(w, Opened)

\* With a URL, or as a failure.
Decide(w) ==
  /\ phase[w] = Opened /\ Put(w, phase'[w])
  /\ phase'[w].st \in {"completed", "failed"}
  /\ phase'[w].st = "failed" => phase'[w].url = None

\* Handed out, or expired.
Take(w) == phase[w] # New /\ Put(w, Gone)

Next == \E w \in Pages : Open(w) \/ Decide(w) \/ Take(w)

Spec == Init /\ [][Next]_phase
================================================================================
