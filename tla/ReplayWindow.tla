---------------------------- MODULE ReplayWindow ----------------------------
(***************************************************************************)
(* What the historical driver promises the strategy: the usable bars of    *)
(* the window, each once, in the order of their times, without a gap; and  *)
(* it says that it is over only when it has given all of them, or when the *)
(* worker is being stopped.                                                *)
(***************************************************************************)
EXTENDS Naturals

CONSTANT Window   \* the usable bars

VARIABLES given, over, cut

windowVars == <<given, over, cut>>

WindowInit == given = {} /\ over = FALSE /\ cut = FALSE

Give ==
  /\ ~over
  /\ \E b \in Window \ given :
       /\ given' = given \cup {b}
       /\ \A c \in Window : c < b => c \in given
       /\ \A c \in given : c < b
  /\ UNCHANGED <<over, cut>>

Finish ==
  /\ given = Window \/ cut
  /\ over' = TRUE
  /\ UNCHANGED <<given, cut>>

Cut == cut' \in BOOLEAN /\ UNCHANGED <<given, over>>

WindowNext == Give \/ Finish \/ Cut

WindowSpec == WindowInit /\ [][WindowNext]_windowVars
=============================================================================
