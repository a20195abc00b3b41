------------------------------ MODULE Session ------------------------------
(***************************************************************************)
(* Signing in, registering and signing out.  A session is kept in three    *)
(* places: the token in the keychain, the user id in the defaults and the  *)
(* server's set of valid tokens; and the tabs hold the user id of the time *)
(* they were built.  Requests carry the token, while the PIN, the chat and *)
(* the addresses are found under the user id.                              *)
(*                                                                         *)
(* "stack" is the navigation controller at the root of the window.  The    *)
(* tabs are pushed on top of the registration, and the pages of the        *)
(* checkout on top of the tabs; "page" stands for any number of them.      *)
(***************************************************************************)
EXTENDS Integers, Sequences, SequencesExt

CONSTANTS
    Accounts,
    Tokens,       \* what the server may issue
    SignIns,      \* bound: sign-in requests in flight
    Logouts,      \* bound: logout requests in flight
    MaxJumps,     \* bound: root replacements scheduled by a settled payment
    None

ASSUME SessionAssumption == None \notin Accounts \cup Tokens /\ MaxJumps \in Nat

VARIABLES
    owner,        \* of each token, None before it is issued
    valid,        \* tokens the server takes
    late,         \* of those: ones of a logout the client gave up on, which may
                  \* still reach the server
    keychain,     \* the token on the device
    userId,       \* in the defaults
    stack,        \* of the root navigation controller
    tabsUser,     \* the user id the tabs were built with
    signin,       \* each sign-in request
    logout,       \* each logout request
    jumps,        \* scheduled root replacements
    odd,          \* history: how this session may have been mixed up
    lost          \* history: a logout of this session was served and never answered

device == <<keychain, userId>>
server == <<owner, valid, late>>
history == <<odd, lost>>
vars == <<owner, valid, late, keychain, userId, stack, tabsUser, signin, logout, jumps, odd, lost>>

Users == Accounts \cup {None}
Kinds == {"login", "signup"}
Oddities == {"overlap", "unseen", "returned", "cut", "reinstalled", "jump"}

FreeSignIn == [kind |-> "login", at |-> "free", account |-> None, token |-> None, here |-> FALSE]
FreeLogout == [at |-> "free", token |-> None]
InFlight == {r \in SignIns : signin[r].at # "free"}
Top == Last(stack)
HasTabs == Contains(stack, "tabs")

TypeOK ==
    /\ owner \in [Tokens -> Users] /\ valid \subseteq {t \in Tokens : owner[t] # None}
    /\ late \subseteq valid
    /\ keychain \in Tokens \cup {None} /\ userId \in Users /\ tabsUser \in Users
    /\ stack \in Seq({"login", "signup", "tabs", "page"}) /\ stack # <<>>
    /\ signin \in [SignIns -> [kind : Kinds, at : {"free", "sent", "served", "opening"},
                               account : Users, token : Tokens \cup {None}, here : BOOLEAN]]
    /\ logout \in [Logouts -> [at : {"free", "sent", "served", "refused"},
                               token : Tokens \cup {None}]]
    /\ jumps \in 0 .. MaxJumps /\ odd \subseteq Oddities /\ lost \in BOOLEAN

\* A fresh install.
Init ==
    /\ owner = [t \in Tokens |-> None] /\ valid = {} /\ late = {}
    /\ keychain = None /\ userId = None
    /\ stack = <<"login">> /\ tabsUser = None
    /\ signin = [r \in SignIns |-> FreeSignIn]
    /\ logout = [q \in Logouts |-> FreeLogout]
    /\ jumps = 0 /\ odd = {} /\ lost = FALSE

-----------------------------------------------------------------------------
(* The navigation controller.                                              *)

\* Requests keep a weak reference to their screen: it is gone once the stack
\* has no such screen.
HereIn(requests, s) ==
    [r \in SignIns |-> IF Contains(s, requests[r].kind)
                        THEN requests[r] ELSE [requests[r] EXCEPT !.here = FALSE]]

\* A new root, or the same one with other screens.
Show(s) ==
    /\ stack' = s
    /\ tabsUser' = IF Contains(s, "tabs") THEN tabsUser ELSE None

\* New tabs, as the last screen of s.
ShowTabs(s) == stack' = s /\ tabsUser' = userId'

\* A root of its own: every earlier screen is gone.
NoneHere(requests) == [r \in SignIns |-> [requests[r] EXCEPT !.here = FALSE]]

-----------------------------------------------------------------------------
(* Signing in.                                                             *)

\* btnSignUp of the login screen, navigateToLogin of the registration.
OpenSignUp ==
    /\ Top = "login"
    /\ Show(Append(stack, "signup"))
    /\ UNCHANGED <<server, device, signin, logout, jumps, history>>

BackToLogin ==
    /\ Top = "signup"
    /\ Show(Front(stack))
    /\ signin' = HereIn(signin, stack')
    /\ UNCHANGED <<server, device, logout, jumps, history>>

\* performLogin, performRegistration: the popup does not take the touches.
SendSignIn(r, a) ==
    /\ Top \in Kinds
    /\ signin[r].at = "free"
    /\ signin' = [signin EXCEPT ![r] = [kind |-> Top, at |-> "sent", account |-> a,
                                       token |-> None, here |-> TRUE]]
    /\ odd' = IF InFlight # {} THEN odd \cup {"overlap"} ELSE odd
    /\ UNCHANGED <<server, device, stack, tabsUser, logout, jumps, lost>>

ServeSignIn(r, t) ==
    /\ signin[r].at = "sent"
    /\ owner[t] = None
    /\ owner' = [owner EXCEPT ![t] = signin[r].account]
    /\ valid' = valid \cup {t}
    /\ signin' = [signin EXCEPT ![r] = [@ EXCEPT !.at = "served", !.token = t]]
    /\ UNCHANGED <<late, device, stack, tabsUser, logout, jumps, history>>

\* didFailLogin, didFailRegistration: an alert.
SignInFails(r) ==
    /\ signin[r].at \in {"sent", "served"}
    /\ signin' = [signin EXCEPT ![r] = FreeSignIn]
    /\ UNCHANGED <<server, device, stack, tabsUser, logout, jumps, history>>

\* storeToken: SecItemAdd does not replace a token that is there.
StoreToken(t) == keychain' = IF keychain = None THEN t ELSE keychain

SignInAnswered_TokenOnly(r) ==
    /\ signin[r].at = "served"
    /\ StoreToken(signin[r].token)
    /\ userId' = IF userId = None THEN signin[r].account ELSE userId
    /\ signin' = [signin EXCEPT ![r].at = "opening"]
    /\ odd' = IF signin[r].here THEN odd ELSE odd \cup {"unseen"}
    /\ UNCHANGED <<server, stack, tabsUser, logout, jumps, lost>>

\* The answer is stored whether or not its screen is still there; the screen
\* is told in a later turn of the main queue.
SignInAnswered(r) ==
    /\ signin[r].at = "served"
    /\ StoreToken(signin[r].token)
    /\ userId' = signin[r].account
    /\ signin' = [signin EXCEPT ![r].at = "opening"]
    /\ odd' = IF signin[r].here THEN odd ELSE odd \cup {"unseen"}
    /\ UNCHANGED <<server, stack, tabsUser, logout, jumps, lost>>

\* didLoginSuccessfully replaces the screens, didRegisterSuccessfully pushes.
Open(r) ==
    /\ signin[r].at = "opening"
    /\ UNCHANGED <<server, device, logout, jumps, lost>>
    /\ \/ /\ ~signin[r].here
          /\ odd' = odd \cup {"unseen"}
          /\ signin' = [signin EXCEPT ![r] = FreeSignIn]
          /\ UNCHANGED <<stack, tabsUser>>
       \/ /\ signin[r].here /\ signin[r].kind = "login"
          /\ ShowTabs(<<"tabs">>)
          /\ signin' = NoneHere([signin EXCEPT ![r] = FreeSignIn])
          /\ UNCHANGED odd
       \/ /\ signin[r].here /\ signin[r].kind = "signup"
          /\ ShowTabs(Append(stack, "tabs"))
          /\ signin' = [signin EXCEPT ![r] = FreeSignIn]
          /\ UNCHANGED odd

-----------------------------------------------------------------------------
(* Signing out.                                                            *)

\* btnLogout of the profile tab: again, the popup does not take the touches.
SendLogout(q) ==
    /\ Top = "tabs"
    /\ logout[q].at = "free"
    /\ logout' = [logout EXCEPT ![q] = [at |-> "sent", token |-> keychain]]
    /\ UNCHANGED <<server, device, stack, tabsUser, signin, jumps, history>>

ServeLogout(q) ==
    /\ logout[q].at = "sent"
    /\ logout' = [logout EXCEPT ![q].at =
                   IF logout[q].token \in valid THEN "served" ELSE "refused"]
    /\ valid' = valid \ {logout[q].token} /\ late' = late \ {logout[q].token}
    /\ UNCHANGED <<owner, device, stack, tabsUser, signin, jumps, history>>

\* A logout that nobody waits for any more.
ServeLate(t) ==
    /\ t \in late
    /\ valid' = valid \ {t} /\ late' = late \ {t}
    /\ lost' = (lost \/ t = keychain)
    /\ UNCHANGED <<owner, device, stack, tabsUser, signin, logout, jumps, odd>>

\* What a session leaves to the next one: a root replacement on its way.
Remains == IF jumps > 0 THEN {"jump"} ELSE {}

LogoutAnswered_IdOnly(q) ==
    /\ logout[q].at = "served"
    /\ logout' = [logout EXCEPT ![q] = FreeLogout]
    /\ userId' = None
    /\ Show(<<"login">>)
    /\ signin' = NoneHere(signin)
    /\ odd' = Remains /\ lost' = FALSE
    /\ UNCHANGED <<server, keychain, jumps>>

LogoutAnswered(q) ==
    /\ logout[q].at = "served"
    /\ logout' = [logout EXCEPT ![q] = FreeLogout]
    /\ keychain' = None /\ userId' = None
    /\ Show(<<"login">>)
    /\ signin' = NoneHere(signin)
    /\ odd' = Remains /\ lost' = FALSE
    /\ UNCHANGED <<server, jumps>>

\* The client no longer waits for these requests; what was not served may be.
GiveUp(requests) ==
    /\ late' = late \cup {t \in valid : \E q \in requests : logout[q] = [at |-> "sent", token |-> t]}
    /\ UNCHANGED <<owner, valid>>

LogoutFails_SignsOut(q) ==
    /\ logout[q].at # "free"
    /\ GiveUp({q})
    /\ lost' = (lost \/ logout[q].at = "served")
    /\ logout' = [logout EXCEPT ![q] = FreeLogout]
    /\ keychain' = None /\ userId' = None
    /\ Show(<<"login">>)
    /\ signin' = NoneHere(signin)
    /\ UNCHANGED <<jumps, odd>>

\* Refused, unreachable, or its answer lost: an alert.
LogoutFails(q) ==
    /\ logout[q].at # "free"
    /\ GiveUp({q})
    /\ lost' = (lost \/ logout[q].at = "served")
    /\ logout' = [logout EXCEPT ![q] = FreeLogout]
    /\ UNCHANGED <<device, stack, tabsUser, signin, jumps, odd>>

-----------------------------------------------------------------------------
(* The pages over the tabs, as far as they move between roots.             *)

OpenPage ==
    /\ Top = "tabs"
    /\ Show(Append(stack, "page"))
    /\ UNCHANGED <<server, device, signin, logout, jumps, history>>

LeavePage ==
    /\ Top = "page"
    /\ Show(Front(stack))
    /\ UNCHANGED <<server, device, signin, logout, jumps, history>>

\* popToRootViewController of the payment page: after a registration the root
\* is the login screen.
PopToRoot ==
    /\ Top = "page"
    /\ Show(<<Head(stack)>>)
    /\ signin' = HereIn(signin, stack')
    /\ odd' = IF Head(stack) = "login" THEN odd \cup {"returned"} ELSE odd
    /\ UNCHANGED <<server, device, logout, jumps, lost>>

\* The empty cart's button.
NewTabs ==
    /\ Top = "page"
    /\ UNCHANGED <<server, device, logout, jumps, history>>
    /\ ShowTabs(<<"tabs">>)
    /\ signin' = NoneHere(signin)

\* A payment of the tabs settles: a root replacement in three seconds.
Settled ==
    /\ HasTabs
    /\ jumps < MaxJumps
    /\ jumps' = jumps + 1
    /\ UNCHANGED <<server, device, stack, tabsUser, signin, logout, history>>

Jump ==
    /\ jumps > 0
    /\ jumps' = jumps - 1
    /\ UNCHANGED <<server, device, logout, history>>
    /\ ShowTabs(<<"tabs">>)
    /\ signin' = NoneHere(signin)

-----------------------------------------------------------------------------
(* The process ends, and starts again.                                     *)

Restart ==
    /\ signin' = [r \in SignIns |-> FreeSignIn]
    /\ logout' = [q \in Logouts |-> FreeLogout]
    /\ lost' = (keychain' # None /\ (lost \/ \E q \in Logouts : logout[q].at = "served"))
    /\ jumps' = 0
    /\ IF keychain' # None THEN ShowTabs(<<"tabs">>) ELSE Show(<<"login">>)
    /\ GiveUp(Logouts)

\* A session that nothing is left of begins anew.
OddAfter(oddity) == odd' = IF keychain' = None THEN {} ELSE odd \cup oddity

Dies ==
    /\ UNCHANGED device
    /\ Restart
    /\ OddAfter({})

\* Between the two writes of a sign-in.
DiesSigningIn(r) ==
    /\ signin[r].at = "served"
    /\ StoreToken(signin[r].token)
    /\ UNCHANGED userId
    /\ Restart
    /\ OddAfter({"cut"})

\* Between the two writes of a sign-out.
DiesSigningOut(q) ==
    /\ logout[q].at = "served"
    /\ keychain' = None
    /\ UNCHANGED userId
    /\ Restart
    /\ OddAfter({"cut"})

\* The keychain outlives the app, the defaults do not.
Reinstall ==
    /\ UNCHANGED keychain
    /\ userId' = None
    /\ Restart
    /\ OddAfter({"reinstalled"})

Next ==
    \/ OpenSignUp
    \/ BackToLogin
    \/ \E r \in SignIns, a \in Accounts : SendSignIn(r, a)
    \/ \E r \in SignIns, t \in Tokens : ServeSignIn(r, t)
    \/ \E r \in SignIns : SignInFails(r) \/ SignInAnswered(r) \/ Open(r)
    \/ \E q \in Logouts : SendLogout(q) \/ ServeLogout(q)
    \/ \E t \in Tokens : ServeLate(t)
    \/ \E q \in Logouts : LogoutAnswered(q)
    \/ \E q \in Logouts : LogoutFails(q)
    \/ OpenPage
    \/ LeavePage
    \/ PopToRoot
    \/ NewTabs
    \/ Settled
    \/ Jump
    \/ Dies
    \/ \E r \in SignIns : DiesSigningIn(r)
    \/ \E q \in Logouts : DiesSigningOut(q)
    \/ Reinstall

Spec == Init /\ [][Next]_vars

-----------------------------------------------------------------------------
(* Properties.                                                             *)

Signed == HasTabs /\ keychain # None /\ tabsUser = userId /\ userId = owner[keychain]
NotSigned == ~HasTabs /\ keychain = None
Entering == \E r \in SignIns : signin[r].at = "opening"

\* With the tabs in the window the token, the stored user id and the one the
\* tabs were built with are of one account; without them there is no token.
\* This holds through any number of sessions, double taps on Logout, deaths of
\* the process and stale ids left by one, unless sign-ins overlap or end after
\* their screen, the payment page brings a registered user back to the login
\* screen, the process dies between the two writes, the app is reinstalled, or
\* a settled payment outlives the session.
OneAccount == odd = {} => Signed \/ NotSigned \/ Entering

\* The device holds a token the server refuses only while the logout's answer
\* is on its way or after it was lost, which may be before the logout got to the
\* server; then no logout ever succeeds again.
RevokedExplained ==
    keychain # None /\ keychain \notin valid =>
        lost \/ \E q \in Logouts : logout[q] = [at |-> "served", token |-> keychain]

\* The device never forgets a token that the server still takes: not for a
\* second tap on Logout that is refused after the next user has signed in, nor
\* when the process dies.
ForgetsOnlyRevoked ==
    [][keychain # None /\ keychain' = None => keychain \notin valid]_vars
=============================================================================
