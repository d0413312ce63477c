------------------------------- MODULE MCGuest -------------------------------
(***************************************************************************)
(* Three parts in one run: the imports of a program, its unhandled rejections,   *)
(* and the alarm of a durable worker.  They share nothing here, and the first     *)
(* state picks the one whose behaviours follow.  The imports: five modules, with  *)
(* a shared one and a cycle.                                                 *)
(***************************************************************************)
EXTENDS ModuleGraph, Rejections, DurableAlarm

CONSTANTS main, a, b, c, util

(* main, c and the cycle of a and b share util; the cycle imports c. *)
SharedImports ==
    [m \in {main, a, b, c, util} |->
        CASE m = a -> {b, util} [] m = b -> {a, c} [] m = util -> {} [] OTHER -> {util}]

VARIABLE part

partsVars == <<part, vars, rejVars, alarmVars>>

PartsInit == Init /\ RejInit /\ AlarmInit /\ part \in {"imports", "rejections", "alarm"}

PartsNext ==
    \/ part = "imports" /\ Next /\ UNCHANGED <<part, rejVars, alarmVars>>
    \/ part = "rejections" /\ RejNext /\ UNCHANGED <<part, vars, alarmVars>>
    \/ part = "alarm" /\ AlarmNext /\ UNCHANGED <<part, vars, rejVars>>

PartsSpec ==
    /\ PartsInit /\ [][PartsNext]_partsVars
    /\ WF_vars(part = "imports" /\ Host) /\ SF_vars(part = "imports" /\ Ending)
    /\ WF_rejVars(part = "rejections" /\ Loop)
    /\ WF_alarmVars(part = "alarm" /\ Runtime /\ Noted)
    /\ WF_alarmVars(part = "alarm" /\ SweepDue /\ Noted)
    /\ WF_alarmVars(part = "alarm" /\ WriteDone /\ Noted)
    /\ WF_alarmVars(part = "alarm" /\ StartWrites /\ Noted)
    /\ SF_alarmVars(part = "alarm" /\ Returns /\ Noted)
    /\ SF_alarmVars(part = "alarm" /\ TurnRuns /\ Noted)
=============================================================================
