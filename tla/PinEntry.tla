------------------------------ MODULE PinEntry ------------------------------
(***************************************************************************)
(* The PIN screen that guards a checkout.  The digits typed so far are     *)
(* examined each time they change: a user without a PIN creates one, any   *)
(* other is let through five seconds after a full match, and is locked out *)
(* by a timer after too many wrong ones.  The keypad stays in use while    *)
(* the success animation plays and during the first second of a lockout.   *)
(***************************************************************************)
EXTENDS Integers, Sequences

CONSTANTS
    Digits,       \* the keys of the keypad
    MaxDigits,    \* 4 in the code
    MaxAttempts,  \* 3 in the code
    LockoutTime,  \* 30 ticks of one second in the code
    MaxMatches,   \* bound: full matches examined on one screen
    NoPin         \* no row of User for this user

ASSUME PinAssumption ==
    /\ MaxDigits \in Nat \ {0}
    /\ MaxAttempts \in Nat \ {0}
    /\ LockoutTime \in Nat \ {0}
    /\ MaxMatches \in Nat \ {0}
    /\ NoPin \notin Seq(Digits)

VARIABLES
    stored,       \* User.pin, in Core Data
    phase,        \* the screen: none, up, closing, held (off screen, kept by its timer)
    digits,       \* enteredDigits
    attempts,
    locked,       \* isLockedOut
    remaining,    \* remainingLockoutTime; countdownTimer runs while it is positive
    keys,         \* areButtonsEnabled: the number keys
    delete,       \* deleteButton.isEnabled
    matches,      \* blocks of showSuccessAnimation that have not run yet
    passes,       \* runs of onCorrectPINEntered: what the caller waits for
    created       \* did this screen store the PIN?

keypad == <<digits, keys, delete>>
lockout == <<attempts, locked, remaining>>
outcome == <<matches, passes, created>>
pinVars == <<stored, phase, digits, attempts, locked, remaining, keys, delete,
          matches, passes, created>>

Full(s) == Len(s) = MaxDigits

PinTypeOK ==
    /\ stored = NoPin \/ (stored \in Seq(Digits) /\ Full(stored))
    /\ phase \in {"none", "up", "closing", "held"}
    /\ digits \in Seq(Digits) /\ Len(digits) <= MaxDigits
    /\ attempts \in 0 .. MaxAttempts
    /\ locked \in BOOLEAN
    /\ remaining \in 0 .. LockoutTime
    /\ keys \in BOOLEAN /\ delete \in BOOLEAN
    /\ matches \in 0 .. MaxMatches /\ passes \in 0 .. MaxMatches
    /\ created \in BOOLEAN

PinInit ==
    /\ stored = NoPin
    /\ phase = "none"
    /\ digits = <<>> /\ keys = TRUE /\ delete = FALSE
    /\ attempts = 0 /\ locked = FALSE /\ remaining = 0
    /\ matches = 0 /\ passes = 0 /\ created = FALSE

\* The controller is gone, and the next one will be as new.  Blocks that hold
\* it weakly do nothing from now on.
Release ==
    /\ phase' = "none"
    /\ digits' = <<>> /\ keys' = TRUE /\ delete' = FALSE
    /\ attempts' = 0 /\ locked' = FALSE /\ remaining' = 0
    /\ matches' = 0 /\ passes' = 0 /\ created' = FALSE

Present ==
    /\ phase = "none"
    /\ phase' = "up"
    /\ UNCHANGED <<stored, keypad, lockout, outcome>>

\* Lockout and attempts live in the controller: they end with the process.
PinKill ==
    /\ phase # "none"
    /\ Release
    /\ UNCHANGED stored

-----------------------------------------------------------------------------
(* What a change of the digits sets off.                                   *)

CreatePin_StaysUp(s) ==
    /\ stored' = s
    /\ created' = TRUE
    /\ UNCHANGED phase

\* The fourth digit of a new user is the last: the screen dismisses itself.
CreatePin(s) ==
    /\ stored' = s
    /\ created' = TRUE
    /\ phase' = "closing"

\* The branch of checkPinOnCoreData for a user without a row.
NewUser(s) ==
    /\ digits' = s
    /\ delete' = (s # <<>>)
    /\ IF Full(s) THEN CreatePin(s) ELSE UNCHANGED <<stored, phase, created>>
    /\ UNCHANGED <<lockout, keys, matches, passes>>

\* showSuccessAnimation: the digits stay, and so does the keypad.
Match(s) ==
    /\ matches + passes < MaxMatches
    /\ digits' = s
    /\ delete' = TRUE
    /\ matches' = matches + 1
    /\ UNCHANGED lockout

\* handleIncorrectPIN: clearing the digits runs updateContainerColors again,
\* which leaves the delete key alone once the lockout began.
Mismatch ==
    /\ digits' = <<>>
    /\ attempts' = attempts + 1
    /\ locked' = (attempts + 1 >= MaxAttempts)
    /\ remaining' = IF locked' THEN LockoutTime ELSE remaining
    /\ delete' = locked'
    /\ UNCHANGED matches

Examine_Locked(s) ==
    \/ /\ ~Full(s)
       /\ digits' = s
       /\ delete' = (s # <<>>)
       /\ UNCHANGED <<lockout, matches>>
    \/ Full(s) /\ s = stored /\ Match(s)
    \/ Full(s) /\ s # stored /\ Mismatch

\* updateContainerColors: nothing is examined during a lockout.
Examine(s) ==
    \/ /\ locked
       /\ digits' = s
       /\ UNCHANGED <<delete, lockout, matches>>
    \/ /\ ~locked /\ ~Full(s)
       /\ digits' = s
       /\ delete' = (s # <<>>)
       /\ UNCHANGED <<lockout, matches>>
    \/ ~locked /\ Full(s) /\ s = stored /\ Match(s)
    \/ ~locked /\ Full(s) /\ s # stored /\ Mismatch

KnownUser(s) ==
    /\ Examine(s)
    /\ UNCHANGED <<stored, phase, keys, passes, created>>

DigitsBecome(s) == IF stored = NoPin THEN NewUser(s) ELSE KnownUser(s)

-----------------------------------------------------------------------------
(* The keypad, the lockout timer and the end of the screen.                *)

\* buttonTapped
Tap(d) ==
    /\ phase = "up" /\ keys
    /\ Len(digits) < MaxDigits
    /\ DigitsBecome(Append(digits, d))

\* deleteButtonTapped
TapDelete ==
    /\ phase = "up" /\ delete
    /\ digits # <<>>
    /\ DigitsBecome(SubSeq(digits, 1, Len(digits) - 1))

Unlock_TimerOnly ==
    /\ attempts' = 0
    /\ UNCHANGED locked
    /\ keys' = TRUE
    /\ delete' = (digits # <<>>)

Unlock_KeepsAttempts ==
    /\ UNCHANGED attempts
    /\ locked' = FALSE
    /\ keys' = TRUE
    /\ delete' = (digits # <<>>)

\* Digits typed during the lockout are still there, and are not examined.
Unlock ==
    /\ attempts' = 0
    /\ locked' = FALSE
    /\ keys' = TRUE
    /\ delete' = (digits # <<>>)

\* updateLockoutTimer: the timer retains the controller until it ends.
Tick ==
    /\ remaining > 0
    /\ \/ /\ remaining > 1
          /\ remaining' = remaining - 1
          /\ keys' = FALSE /\ delete' = FALSE
          /\ UNCHANGED <<phase, digits, attempts, locked, outcome>>
       \/ /\ remaining = 1 /\ phase # "held"
          /\ remaining' = 0
          /\ Unlock
          /\ UNCHANGED <<phase, digits, outcome>>
       \/ /\ remaining = 1 /\ phase = "held"
          /\ Release
    /\ UNCHANGED stored

Open_NoDismiss ==
    /\ passes' = passes + 1
    /\ UNCHANGED phase

\* onCorrectPINEntered: dismiss, then the caller's completion.  When an earlier
\* block already dismissed the screen UIKit may run the completion again.
Open ==
    \/ phase = "up" /\ phase' = "closing" /\ passes' = passes + 1
    \/ phase # "up" /\ UNCHANGED phase /\ passes' \in {passes, passes + 1}

\* A block of showSuccessAnimation, five seconds after its match.
Success ==
    /\ matches > 0
    /\ matches' = matches - 1
    /\ Open
    /\ UNCHANGED <<stored, keypad, lockout, created>>

\* The end of the dismissal; only the lockout timer outlives it.
Dismissed ==
    /\ phase = "closing"
    /\ \/ /\ remaining > 0
          /\ phase' = "held"
          /\ UNCHANGED <<keypad, lockout, outcome>>
       \/ /\ remaining = 0
          /\ Release
    /\ UNCHANGED stored

-----------------------------------------------------------------------------
PinNext ==
    \/ Present
    \/ PinKill
    \/ \E d \in Digits : Tap(d)
    \/ TapDelete
    \/ Tick
    \/ Success
    \/ Dismissed

PinSpec == PinInit /\ [][PinNext]_pinVars

\* Timers fire, delayed blocks run and animations end.
PinFairness == WF_pinVars(Tick) /\ WF_pinVars(Success) /\ WF_pinVars(Dismissed)

PinFairSpec == PinSpec /\ PinFairness

-----------------------------------------------------------------------------
(* What the screen promises.                                               *)

\* The lockout, its countdown and the count of wrong entries agree: locked
\* after exactly MaxAttempts wrong entries and for as long as the timer runs,
\* although keys are still taken while it starts; no further wrong entry is
\* counted, and the count starts over when the timer ends.
LockoutExact ==
    /\ locked <=> attempts = MaxAttempts
    /\ locked <=> remaining > 0

\* Outside a lockout the keypad is never dead: the number keys work, and when
\* the row is full (after a match, or filled unexamined while the lockout
\* began) the delete key does.
KeypadUsable ==
    phase = "up" /\ ~locked =>
        /\ keys
        /\ delete <=> digits # <<>>

\* Entries are worth nothing during a lockout: as long as it lasts no entry is
\* counted as wrong and none as a match, also those typed before the keypad was
\* switched off.
NoGuessWhileLocked ==
    [][locked /\ locked' => attempts' = attempts /\ matches' <= matches]_pinVars

\* Creating a PIN is not entering it: the screen that stored a PIN never runs
\* its caller's completion, so a new user's checkout does not go through.
CreationOpensNothing == created => matches = 0 /\ passes = 0

\* A lockout ends with a working keypad, unless the screen went away: also
\* when the row was filled, unexamined, while the lockout began, and only the
\* delete key is of use.
LockoutEnds ==
    locked /\ phase = "up"
        ~> phase # "up" \/ (~locked /\ keys /\ (delete <=> digits # <<>>))

\* A full match opens, whatever is typed during the animation, even when that
\* locks the screen.
MatchOpens == matches > 0 /\ phase = "up" ~> phase # "up"
=============================================================================
