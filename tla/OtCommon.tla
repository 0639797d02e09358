------------------------------ MODULE OtCommon ------------------------------
(***************************************************************************)
(* Numbers that every part of a document uses (ot-common/Timestamp.js,     *)
(* RevisionNumber.js, doc-common/Timeouts.js).                             *)
(*                                                                         *)
(* A timestamp is a count of seconds and of microseconds.  The code keeps  *)
(* seconds between two constants, years apart; their number and that of    *)
(* microseconds in a second are parameters here.                           *)
(***************************************************************************)
EXTENDS Integers

CONSTANTS MinSecs, MaxSecs, UsecsPerSec, UsecsPerMsec, MinTimeout, MaxTimeout

ASSUME TimesAssumption ==
  /\ MinSecs \in Nat /\ MaxSecs \in Nat /\ MinSecs < MaxSecs
  /\ UsecsPerSec \in Nat \ {0} /\ UsecsPerMsec \in Nat \ {0}
  /\ MinTimeout \in Nat /\ MaxTimeout \in Nat /\ MinTimeout <= MaxTimeout

BadTimestamp == [secs |-> -1, usecs |-> -1]

Timestamps == [secs : MinSecs..(MaxSecs - 1), usecs : 0..(UsecsPerSec - 1)]

\* The constructor: what is out of range throws.
Timestamp(secs, usecs) ==
  IF secs \in MinSecs..(MaxSecs - 1) /\ usecs \in 0..(UsecsPerSec - 1)
  THEN [secs |-> secs, usecs |-> usecs] ELSE BadTimestamp

\* Mutant: rounded towards zero.
SplitTowardsZero(fullUsecs) ==
  IF fullUsecs < 0
  THEN [secs |-> -((-fullUsecs) \div UsecsPerSec), usecs |-> -((-fullUsecs) % UsecsPerSec)]
  ELSE [secs |-> fullUsecs \div UsecsPerSec, usecs |-> fullUsecs % UsecsPerSec]

\* _splitUsecs(): seconds are rounded down.
SplitUsecs(fullUsecs) ==
  LET secs == fullUsecs \div UsecsPerSec
  IN [secs |-> secs, usecs |-> fullUsecs - secs * UsecsPerSec]

\* fromUsec()
FromUsec(usec) == Timestamp(SplitUsecs(usec).secs, SplitUsecs(usec).usecs)

\* fromMsec()
FromMsec(msec) == FromUsec(msec * UsecsPerMsec)

\* addUsec(): one second more if the microseconds overflow.
AddUsec(t, addUsec) ==
  LET split == SplitUsecs(addUsec)
      secs  == split.secs + t.secs
      usecs == split.usecs + t.usecs
  IN IF usecs >= UsecsPerSec
     THEN Timestamp(secs + 1, usecs - UsecsPerSec)
     ELSE Timestamp(secs, usecs)

\* addMsec()
AddMsec(t, addMsec) == AddUsec(t, addMsec * UsecsPerMsec)

\* compareTo(): seconds first.
CompareTo(t, other) ==
  LET sameSecs   == t.secs = other.secs
      thisValue  == IF sameSecs THEN t.usecs ELSE t.secs
      otherValue == IF sameSecs THEN other.usecs ELSE other.secs
  IN IF thisValue = otherValue THEN 0 ELSE IF thisValue < otherValue THEN -1 ELSE 1

-----------------------------------------------------------------------------
(* RevisionNumber: which values the checks let through                     *)

RevNumChecks(n)         == n >= 0
RevNumMaxExc(n, maxExc) == n >= 0 /\ n < maxExc
RevNumMaxInc(n, maxInc) == n >= 0 /\ n <= maxInc
RevNumMin(n, minInc)    == n >= minInc
RevNumOrNeg1(n)         == n >= -1

-----------------------------------------------------------------------------
\* Timeouts.clamp(): no timeout is the longest one.
NoTimeout == -1
Clamp(timeoutMsec) ==
  IF timeoutMsec = NoTimeout THEN MaxTimeout
  ELSE IF timeoutMsec < MinTimeout THEN MinTimeout
  ELSE IF timeoutMsec > MaxTimeout THEN MaxTimeout
  ELSE timeoutMsec
=============================================================================
