----------------------------- MODULE Lifecycle ------------------------------
(***************************************************************************)
(* The life of an object that its own asynchronous operations keep alive.  *)
(* It is stopped before the last reference to it goes, so it is never lost *)
(* while its socket is open; once stopped it goes away, for good.          *)
(* ServerConnection implements this.                                       *)
(***************************************************************************)
VARIABLE life   \* "open", "stopped", "gone"

Init == life = "open"

Stop == life = "open" /\ life' = "stopped"

Vanish == life = "stopped" /\ life' = "gone"

SafeSpec == Init /\ [][Stop \/ Vanish]_life

Spec == SafeSpec /\ WF_life(Vanish)
=============================================================================
