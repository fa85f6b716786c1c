--------------------------- MODULE MCFishController ---------------------------
(***************************************************************************)
(* Instances of FishController for TLC.                                    *)
(***************************************************************************)
EXTENDS FishController

\* No fish at once both sees and feels the predator: three cases are enough.
ThreeSenses == {{}, {"vision"}, {"ripple"}}

\* The transitions of the state machine, from the figure in the project report
\* (CS275_Project/images/state_machine.jpg).  Two arrows begin at a name for
\* several states, and the figure does not say which: AllStates goes to Wander,
\* PredatorChase to Compact.  Both may begin anywhere here.
Drawn ==
  {<<"Wander", "Ball">>, <<"Wander", "Compact">>, <<"Wander", "FastAvoid">>,
   <<"Ball", "Compact">>,
   <<"Compact", "FastAvoid">>, <<"Compact", "Skitter">>, <<"Compact", "Avoid">>,
   <<"Compact", "FlashOut">>,
   <<"Avoid", "Compact">>, <<"Avoid", "FastAvoid">>,
   <<"FastAvoid", "Herd">>, <<"Herd", "FastAvoid">>,
   <<"Herd", "Hourglass">>, <<"Herd", "Fountain">>,
   <<"FlashOut", "FlashIn">>, <<"FlashIn", "Join">>,
   <<"Hourglass", "Join">>, <<"Fountain", "Join">>,
   <<"Join", "Compact">>, <<"Join", "Split">>, <<"Split", "Join">>}

FigureTransitions ==
  Drawn \cup {t \in StateName \X {"Wander", "Compact"} : t[1] # t[2]}

NoTransitions == {}

\* The frames in which the state machine stays where it is: with NoTransitions
\* the other disjuncts of Next never happen.  MCManoeuvres has those.
Quiet ==
  \/ \E f \in FishId : FishTick(f)
  \/ PawnTick
  \/ GroupTick
  \/ UpdateControllerState
  \/ NextFrame

QuietSpec == Init /\ [][Quiet]_vars /\ WF_vars(Quiet)

=============================================================================
