----------------------------- MODULE InitMonitor -----------------------------
(***************************************************************************)
(* What VeQItemInitMonitor promises (ve_qitem_init_monitor.h), of several  *)
(* monitors of the same items: started with some items, a monitor emits    *)
(* `initialized' once, while all of them have been answered for; and not   *)
(* only if it happens to look at the right moment: when they all stay      *)
(* answered for, the signal must come.  How a monitor learns of changes,   *)
(* and of which, is up to the implementation.                              *)
(***************************************************************************)
CONSTANTS Items, ItemStates, Monitors

VARIABLES
  itemState,       \* VeQItem::State of each item
  mItems,          \* the items a monitor waits for; none before and after
  started

monitorVars == << itemState, mItems, started >>

Init ==
  /\ itemState = [i \in Items |-> "Idle"]
  /\ mItems = [m \in Monitors |-> {}]
  /\ started = [m \in Monitors |-> FALSE]

Initialized(i) == itemState[i] \notin { "Idle", "Requested" }

(* start, with items that are not all initialized: when they are, the      *)
(* caller finds out with checkState, and uses no monitor.                  *)
Start(m) ==
  /\ ~ started[m]
  /\ started' = [started EXCEPT ![m] = TRUE]
  /\ mItems' = [mItems EXCEPT ![m] = mItems'[m]]
  /\ mItems'[m] # {} => \E i \in mItems'[m] : ~ Initialized(i)

EmitInitialized(m) ==
  /\ mItems[m] # {} /\ \A i \in mItems[m] : Initialized(i)
  /\ mItems' = [mItems EXCEPT ![m] = {}]

(* Items change in these steps, too, and by themselves.                    *)
Next ==
  /\ itemState' \in [Items -> ItemStates]
  /\ \/ \E m \in Monitors : Start(m) \/ (EmitInitialized(m) /\ UNCHANGED started)
     \/ UNCHANGED << mItems, started >>

Fairness == \A m \in Monitors : WF_mItems(EmitInitialized(m))

Spec == Init /\ [][Next]_monitorVars /\ Fairness
=============================================================================
