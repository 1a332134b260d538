------------------------------ MODULE LastError ------------------------------
(***************************************************************************)
(* DiagnosticsService::setError and its timer: the last error that was     *)
(* logged is published at /LastError, but not more than about once per     *)
(* interval.  Times are counted in ticks.  The timer is a coarse one, the  *)
(* default of Qt: it may expire a little before its interval is over, by   *)
(* 5% at most.  And the event loop may be busy, and call the slot up to    *)
(* MaxDelay later.                                                         *)
(***************************************************************************)
EXTENDS Integers

CONSTANTS
  Messages, NoMessage,
  Interval,        \* of mLastErrorTimer
  MaxEarly,        \* by which it may be early, 5% of the interval
  MaxDelay,        \* bound: delay of the timer's slot
  MaxTime          \* bound: length of a behaviour

ASSUME LastErrorAssumption ==
  /\ NoMessage \notin Messages
  /\ Interval \in Nat \ {0} /\ MaxEarly \in 0 .. Interval - 1
  /\ MaxDelay \in Nat /\ MaxTime \in Nat

Never == -1

VARIABLES
  now,
  mLastError,      \* mLastErrorText and mLastErrorTime
  expires,         \* when mLastErrorTimer's interval is over; Never if it
                   \* is not active
  published,       \* LastError/Message and LastError/Timestamp
  publishedAt,     \* history: when that was
  latest,          \* history: the last error that was logged
  waitingSince     \* history: the first error logged since publishedAt

lastErrorVars ==
  << now, mLastError, expires, published, publishedAt, latest, waitingSince >>

-----------------------------------------------------------------------------
NoError == [ text |-> NoMessage, time |-> Never ]
Error(message) == [ text |-> message, time |-> now ]

(* DiagnosticsService::setError, called for messages of level error.       *)
Log(message) ==
  /\ latest' = Error(message)
  /\ waitingSince' = IF waitingSince = Never THEN now ELSE waitingSince
  /\ UNCHANGED now

SetErrorKeepsFirst(message) ==
  /\ Log(message)
  /\ mLastError' = IF expires = Never THEN Error(message) ELSE mLastError
  /\ expires' = IF expires = Never THEN now + Interval ELSE expires
  /\ UNCHANGED << published, publishedAt >>
SetErrorRestarts(message) ==
  /\ Log(message)
  /\ mLastError' = Error(message)
  /\ expires' = now + Interval
  /\ UNCHANGED << published, publishedAt >>
SetErrorAtOnce(message) ==
  /\ Log(message)
  /\ mLastError' = Error(message)
  /\ expires' = IF expires = Never THEN now + Interval ELSE expires
  /\ published' = IF expires = Never THEN Error(message) ELSE published
  /\ publishedAt' = IF expires = Never THEN now ELSE publishedAt
SetError(message) ==
  /\ Log(message)
  /\ mLastError' = Error(message)
  /\ expires' = IF expires = Never THEN now + Interval ELSE expires
  /\ UNCHANGED << published, publishedAt >>

(* DiagnosticsService::onLastErrorTimer; the timer is a single shot.       *)
Expired == expires # Never /\ now >= expires - MaxEarly
OnLastErrorTimerPeriodic ==
  /\ Expired
  /\ expires' = now + Interval
  /\ published' = mLastError
  /\ publishedAt' = now
  /\ waitingSince' = Never
  /\ UNCHANGED << now, mLastError, latest >>
OnLastErrorTimer ==
  /\ Expired
  /\ expires' = Never
  /\ published' = mLastError
  /\ publishedAt' = now
  /\ waitingSince' = Never
  /\ UNCHANGED << now, mLastError, latest >>

Tick ==
  /\ now < MaxTime
  /\ expires # Never => now < expires + MaxDelay
  /\ now' = now + 1
  /\ UNCHANGED << mLastError, expires, published, publishedAt, latest, waitingSince >>

LastErrorInit ==
  /\ now = 0
  /\ mLastError = NoError
  /\ expires = Never
  /\ published = NoError
  /\ publishedAt = Never
  /\ latest = NoError
  /\ waitingSince = Never

LastErrorNext ==
  \/ \E message \in Messages : SetError(message)
  \/ OnLastErrorTimer
  \/ Tick

LastErrorSpec == LastErrorInit /\ [][LastErrorNext]_lastErrorVars

-----------------------------------------------------------------------------
Times == 0 .. MaxTime
ErrorType == [ text : Messages, time : Times ] \cup { NoError }

(* The variables have their types, and the timer is active exactly while   *)
(* an error waits to be published.                                         *)
LastErrorTypeOK ==
  /\ now \in Times
  /\ mLastError \in ErrorType /\ published \in ErrorType /\ latest \in ErrorType
  /\ publishedAt \in Times \cup { Never } /\ waitingSince \in Times \cup { Never }
  /\ expires \in Nat \cup { Never }
  /\ expires # Never <=> waitingSince # Never

(* Of errors that come in quick succession the last one is published, with *)
(* its own time: once nothing waits, it is the one there.                  *)
LatestPublished == expires = Never => published = latest

(* Between two publications there is an interval, or what of it a timer    *)
(* leaves that is early.  (diagnostics_service.h:54 wants no more than one *)
(* publication per second: with a coarse timer there may be one after 95%  *)
(* of a second.)                                                           *)
RateLimited ==
  [][published' # published /\ publishedAt # Never
       => now >= publishedAt + Interval - MaxEarly]_lastErrorVars

(* Errors that keep coming do not hold back the publication: none waits    *)
(* longer than the interval and the delay of the slot.                     *)
PublishedInTime ==
  waitingSince # Never => now <= waitingSince + Interval + MaxDelay
=============================================================================
