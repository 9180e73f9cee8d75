-------------------------- MODULE ExecutionReality --------------------------
(***************************************************************************)
(* execution_reality.py: the exits of a filled event when what is bought   *)
(* cannot be sold on the same day, nor on a day locked at its down limit.  *)
(* Strictly, a day whose order of prices matters decides nothing;          *)
(* conservatively, it stops the position.                                  *)
(***************************************************************************)
EXTENDS Outcome

CONSTANTS
    ExitSessions,  \* MAX_HOLDING_SESSIONS
    DownLimit      \* the down limit among price_limits; None where, as in
                   \* run_execution_reality_check, none are passed

ASSUME ExitAssumption == ExitSessions \in Nat \ {0}

\* The ways to leave a position with its target; None is not one of them.
TargetExits == {"TARGET", "GAP_TARGET"}

ASSUME NoExitAssumption == None \notin TargetExits

OpenFills == {"OPEN_FILL", "BREAKOUT_GAP_FILL"}

\* Whether the invalid price was touched on the day of the entry.
FillDayStop(e, o, bar) ==
    IF ~HitsInvalid(e, bar) THEN "NONE"
    ELSE IF o.type \in OpenFills THEN "BLOCKED" ELSE "AMBIGUOUS"

Locked(bar) == DownLimit # None /\ {bar.open, bar.high, bar.low} = {DownLimit}

\* Mutant: the shares bought today are sold today.
SellableSameDay(future) ==
    {i \in DOMAIN Sessions(future, ExitSessions) : ~Locked(future[i])}

\* The sessions of the window on which the position can be sold.
Sellable(future) ==
    {i \in DOMAIN Sessions(future, ExitSessions) : i > 1 /\ ~Locked(future[i])}

Status(status) == [status |-> status, exit |-> None, at |-> None, price |-> None]

Resolved(exit, at, price) ==
    [status |-> "RESOLVED", exit |-> exit, at |-> at, price |-> price]

Both(exit) == [strict |-> exit, conservative |-> exit]

Terminal(future) ==
    Status(IF Len(future) < ExitSessions THEN "CENSORED" ELSE "TIMEOUT")

\* A position stopped on its first day leaves at the next open it can.
BlockedStop(future) ==
    IF Sellable(future) = {} THEN Terminal(future)
    ELSE LET i == First(Sellable(future))
         IN  Resolved("STOP_TRIGGERED_T1_BLOCKED", i, future[i].open)

\* What a sellable session that touches either price decides.
Exit(e, bar, i) ==
    IF bar.open <= e.invalid THEN Both(Resolved("GAP_STOP", i, bar.open))
    ELSE IF bar.open >= e.s1 THEN Both(Resolved("GAP_TARGET", i, e.s1))
    ELSE IF HitsInvalid(e, bar) /\ HitsTarget(e, bar)
      THEN [strict |-> Status("AMBIGUOUS"),
            conservative |-> Resolved("STOP_FIRST", i, e.invalid)]
    ELSE IF HitsInvalid(e, bar) THEN Both(Resolved("STOP", i, e.invalid))
    ELSE Both(Resolved("TARGET", i, e.s1))

\* _resolve_execution
ResolveExecution(e, o, future) ==
    LET stop == FillDayStop(e, o, future[1])
        hits == {i \in Sellable(future) :
                   HitsInvalid(e, future[i]) \/ HitsTarget(e, future[i])}
    IN  IF stop = "BLOCKED" THEN Both(BlockedStop(future))
        ELSE IF stop = "AMBIGUOUS"
          THEN [strict |-> Status("AMBIGUOUS"), conservative |-> BlockedStop(future)]
        ELSE IF hits = {} THEN Both(Terminal(future))
        ELSE Exit(e, future[First(hits)], First(hits))

\* relabel_execution_episode
RelabelExecution(e, o, future) ==
    IF ~e.candidate THEN Both(Status("NON_ACTIONABLE"))
    ELSE IF o.fill = "CENSORED" THEN Both(Status("CENSORED"))
    ELSE IF o.fill # "FILLED" THEN Both(Status("NO_FILL"))
    ELSE IF o.price <= e.invalid THEN Both(Status("INVALID_PLAN"))
    ELSE ResolveExecution(e, o, future)
=============================================================================
