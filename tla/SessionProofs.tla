--------------------------- MODULE SessionProofs ---------------------------
(***************************************************************************)
(* Safety of Session for any accounts, tokens and numbers of requests.     *)
(***************************************************************************)
EXTENDS Session, SequenceTheorems, TLAPS

Screens == {"login", "signup", "tabs", "page"}

SignInType ==
    [SignIns -> [kind : Kinds, at : {"free", "sent", "served", "opening"},
                 account : Users, token : Tokens \cup {None}, here : BOOLEAN]]

LogoutType ==
    [Logouts -> [at : {"free", "sent", "served", "refused"}, token : Tokens \cup {None}]]

\* Where the screens may be: registrations and pages lie over something.
RootStays == stack[1] \in {"login", "tabs"}

Typed == TypeOK /\ RootStays

\* Who a request is for.
InUse ==
    \A r \in SignIns : IF signin[r].at = "free" THEN ~signin[r].here
                                                ELSE signin[r].account # None

\* A token that is out was issued before.
Issued ==
    /\ keychain # None => owner[keychain] # None
    /\ \A q \in Logouts : logout[q].token # None => owner[logout[q].token] # None

\* The token of an answer on its way is nobody else's, and good.
Unstored ==
    \A r \in SignIns : signin[r].at = "served" =>
        /\ signin[r].token \in valid \ {keychain}
        /\ owner[signin[r].token] = signin[r].account
        /\ \A s \in SignIns :
              signin[s].at = "served" /\ signin[s].token = signin[r].token => s = r

\* A logout on its way asks for the token on the device, or for one that the
\* server does not take any more; at most one of them was served, and it
\* revoked the one on the device.
Asked ==
    \A q \in Logouts :
        /\ logout[q].token \in valid => logout[q].token = keychain
        /\ logout[q].at = "served" =>
              /\ logout[q].token = keychain /\ keychain # None /\ keychain \notin valid
              /\ \A p \in Logouts : logout[p].at = "served" => p = q

\* An abandoned logout that may still be served asked for the token on the device.
Abandoned == late \subseteq valid \cap {keychain}

TokensKept == InUse /\ Issued /\ Unstored /\ Asked /\ Abandoned /\ RevokedExplained

\* The navigation controller while nothing odd has happened.
Shapes ==
    {<<"login">>, <<"login", "signup">>, <<"tabs">>, <<"tabs", "page">>,
     <<"login", "signup", "tabs">>, <<"login", "signup", "tabs", "page">>}

\* The one sign-in whose answer is stored and whose tabs are not yet shown.
Opening(r) ==
    /\ InFlight = {r} /\ signin[r].at = "opening"
    /\ keychain \in valid /\ userId = owner[keychain]
    /\ late = {} /\ \A q \in Logouts : logout[q].token # keychain

SignedOut ==
    /\ NotSigned /\ jumps = 0
    /\ \A r \in SignIns : signin[r].here => signin[r].at # "opening"

SigningIn == ~HasTabs /\ jumps = 0 /\ \E r \in SignIns : Opening(r)

\* A request that still has its screen is the only one.
Alone ==
    \A r \in SignIns : signin[r].here =>
        InFlight = {r} /\ ~HasTabs /\ Contains(stack, signin[r].kind)

Plain == odd = {} => stack \in Shapes /\ Alone /\ (Signed \/ SignedOut \/ SigningIn)

IInv == Typed /\ TokensKept /\ Plain

-----------------------------------------------------------------------------
(* Lemmas on the navigation controller.                                    *)

\* A screen on top of another one leaves a stack with the same root.
LEMMA FrontType ==
  ASSUME NEW s \in Seq(Screens), s # <<>>, s[1] \in {"login", "tabs"},
         Last(s) \in {"signup", "page"}
  PROVE  /\ Front(s) \in Seq(Screens) /\ Front(s) # <<>>
         /\ Front(s)[1] = s[1]
<1>1. Len(s) \in Nat /\ Len(s) >= 2
  BY DEF Last
<1>2. /\ SubSeq(s, 1, Len(s) - 1) \in Seq(Screens)
      /\ Len(SubSeq(s, 1, Len(s) - 1)) = Len(s) - 1
      /\ SubSeq(s, 1, Len(s) - 1)[1] = s[1]
  BY <1>1, SubSeqProperties
<1>3. SubSeq(s, 1, Len(s) - 1) # <<>>
  <2>1. SubSeq(s, 1, Len(s) - 1) = <<>> => Len(SubSeq(s, 1, Len(s) - 1)) = 0
    BY EmptySeq
  <2>. QED
    BY <1>1, <1>2, <2>1
<1>. QED
  BY <1>2, <1>3 DEF Front

\* A screen pushed on a stack leaves its root.
LEMMA AppendType ==
  ASSUME NEW s \in Seq(Screens), s # <<>>, NEW e \in Screens
  PROVE  /\ Append(s, e) \in Seq(Screens) /\ Append(s, e) # <<>>
         /\ Append(s, e)[1] = s[1]
  OBVIOUS

\* What the stacks of a plain session show.
LEMMA ShapeFacts ==
  ASSUME NEW s \in Shapes
  PROVE  /\ Last(s) = "login" => s = <<"login">>
         /\ Last(s) = "signup" => s = <<"login", "signup">>
         /\ Last(s) = "tabs" => s \in {<<"tabs">>, <<"login", "signup", "tabs">>}
         /\ Last(s) = "page" => s \in {<<"tabs", "page">>, <<"login", "signup", "tabs", "page">>}
         /\ Contains(s, "tabs") <=> s \notin {<<"login">>, <<"login", "signup">>}
         /\ Contains(s, "login") <=> s \notin {<<"tabs">>, <<"tabs", "page">>}
         /\ Contains(s, "signup") <=> s \notin {<<"login">>, <<"tabs">>, <<"tabs", "page">>}
<1>1. CASE s = <<"login">>
  BY <1>1 DEF Last, Contains
<1>2. CASE s = <<"login", "signup">>
  BY <1>2 DEF Last, Contains
<1>3. CASE s = <<"tabs">>
  BY <1>3 DEF Last, Contains
<1>4. CASE s = <<"tabs", "page">>
  BY <1>4 DEF Last, Contains
<1>5. CASE s = <<"login", "signup", "tabs">>
  BY <1>5 DEF Last, Contains
<1>6. CASE s = <<"login", "signup", "tabs", "page">>
  BY <1>6 DEF Last, Contains
<1>. QED
  BY <1>1, <1>2, <1>3, <1>4, <1>5, <1>6 DEF Shapes

\* Pushing and popping on them.
LEMMA ShapeMoves ==
  /\ Append(<<"login">>, "signup") = <<"login", "signup">>
  /\ Append(<<"login", "signup">>, "tabs") = <<"login", "signup", "tabs">>
  /\ Append(<<"tabs">>, "page") = <<"tabs", "page">>
  /\ Append(<<"login", "signup", "tabs">>, "page") = <<"login", "signup", "tabs", "page">>
  /\ Front(<<"login", "signup">>) = <<"login">>
  /\ Front(<<"tabs", "page">>) = <<"tabs">>
  /\ Front(<<"login", "signup", "tabs", "page">>) = <<"login", "signup", "tabs">>
<1>1. ASSUME NEW s \in Seq(Screens), NEW t \in Seq(Screens), NEW e \in Screens,
             Len(t) = Len(s) + 1, \A i \in 1 .. Len(s) : t[i] = s[i], t[Len(t)] = e
      PROVE  Append(s, e) = t /\ Front(t) = s
  <2>1. /\ Append(s, e) \in Seq(Screens) /\ Len(Append(s, e)) = Len(t)
        /\ \A i \in 1 .. Len(t) : Append(s, e)[i] = t[i]
    BY <1>1, AppendProperties
  <2>2. Append(s, e) = t
    BY <2>1, SeqEqual
  <2>3. Len(s) \in Nat /\ Len(t) - 1 = Len(s)
    BY <1>1, LenProperties
  <2>4. /\ Front(t) \in Seq(Screens) /\ Len(Front(t)) = Len(s)
        /\ \A i \in 1 .. Len(s) : Front(t)[i] = t[1 + i - 1]
    BY <1>1, <2>3, SubSeqProperties DEF Front
  <2>5. \A i \in 1 .. Len(s) : Front(t)[i] = s[i]
    BY <1>1, <2>3, <2>4
  <2>6. Front(t) = s
    BY <2>4, <2>5, SeqEqual
  <2>. QED
    BY <2>2, <2>6
<1>2. /\ <<"login">> \in Seq(Screens) /\ <<"login", "signup">> \in Seq(Screens)
      /\ <<"login", "signup", "tabs">> \in Seq(Screens)
      /\ <<"login", "signup", "tabs", "page">> \in Seq(Screens)
      /\ <<"tabs">> \in Seq(Screens) /\ <<"tabs", "page">> \in Seq(Screens)
  BY DEF Screens
<1>3. "signup" \in Screens /\ "tabs" \in Screens /\ "page" \in Screens
  BY DEF Screens
<1>4. /\ Append(<<"login">>, "signup") = <<"login", "signup">>
      /\ Front(<<"login", "signup">>) = <<"login">>
  <2>1. /\ Len(<<"login", "signup">>) = Len(<<"login">>) + 1
        /\ \A i \in 1 .. Len(<<"login">>) : <<"login", "signup">>[i] = <<"login">>[i]
        /\ <<"login", "signup">>[Len(<<"login", "signup">>)] = "signup"
    OBVIOUS
  <2>. QED
    BY <1>1, <1>2, <1>3, <2>1
<1>5. /\ Append(<<"login", "signup">>, "tabs") = <<"login", "signup", "tabs">>
      /\ Front(<<"login", "signup", "tabs">>) = <<"login", "signup">>
  <2>1. /\ Len(<<"login", "signup", "tabs">>) = Len(<<"login", "signup">>) + 1
        /\ \A i \in 1 .. Len(<<"login", "signup">>) : <<"login", "signup", "tabs">>[i] = <<"login", "signup">>[i]
        /\ <<"login", "signup", "tabs">>[Len(<<"login", "signup", "tabs">>)] = "tabs"
    OBVIOUS
  <2>. QED
    BY <1>1, <1>2, <1>3, <2>1
<1>6. /\ Append(<<"tabs">>, "page") = <<"tabs", "page">>
      /\ Front(<<"tabs", "page">>) = <<"tabs">>
  <2>1. /\ Len(<<"tabs", "page">>) = Len(<<"tabs">>) + 1
        /\ \A i \in 1 .. Len(<<"tabs">>) : <<"tabs", "page">>[i] = <<"tabs">>[i]
        /\ <<"tabs", "page">>[Len(<<"tabs", "page">>)] = "page"
    OBVIOUS
  <2>. QED
    BY <1>1, <1>2, <1>3, <2>1
<1>7. /\ Append(<<"login", "signup", "tabs">>, "page") = <<"login", "signup", "tabs", "page">>
      /\ Front(<<"login", "signup", "tabs", "page">>) = <<"login", "signup", "tabs">>
  <2>1. /\ Len(<<"login", "signup", "tabs", "page">>) = Len(<<"login", "signup", "tabs">>) + 1
        /\ \A i \in 1 .. Len(<<"login", "signup", "tabs">>) : <<"login", "signup", "tabs", "page">>[i] = <<"login", "signup", "tabs">>[i]
        /\ <<"login", "signup", "tabs", "page">>[Len(<<"login", "signup", "tabs", "page">>)] = "page"
    OBVIOUS
  <2>. QED
    BY <1>1, <1>2, <1>3, <2>1
<1>. QED
  BY <1>4, <1>5, <1>6, <1>7

-----------------------------------------------------------------------------
(* Types.                                                                  *)

\* Losing one's screen leaves everything else of a request as it was.
LEMMA HereInType ==
  ASSUME NEW S \in SignInType, NEW s
  PROVE  /\ HereIn(S, s) \in SignInType /\ NoneHere(S) \in SignInType
         /\ \A r \in SignIns :
              /\ HereIn(S, s)[r].at = S[r].at /\ NoneHere(S)[r].at = S[r].at
              /\ HereIn(S, s)[r].kind = S[r].kind
              /\ HereIn(S, s)[r].account = S[r].account
              /\ NoneHere(S)[r].account = S[r].account
              /\ HereIn(S, s)[r].token = S[r].token
              /\ NoneHere(S)[r].token = S[r].token
              /\ HereIn(S, s)[r].here <=> S[r].here /\ Contains(s, S[r].kind)
              /\ HereIn(S, s)[r].here => S[r].here
              /\ ~NoneHere(S)[r].here
<1>1. ASSUME NEW r \in SignIns
      PROVE  [S[r] EXCEPT !.here = FALSE] \in
                [kind : Kinds, at : {"free", "sent", "served", "opening"},
                 account : Users, token : Tokens \cup {None}, here : BOOLEAN]
  BY DEF SignInType
<1>2. HereIn(S, s) \in SignInType /\ NoneHere(S) \in SignInType
  BY <1>1 DEF SignInType, HereIn, NoneHere
<1>. QED
  BY <1>2 DEF SignInType, HereIn, NoneHere

\* Typed, in the names of the lemmas.
LEMMA TypedIs ==
  ASSUME Typed
  PROVE  /\ owner \in [Tokens -> Users] /\ valid \subseteq Tokens /\ late \subseteq valid
         /\ \A t \in valid : owner[t] # None
         /\ keychain \in Tokens \cup {None} /\ userId \in Users /\ tabsUser \in Users
         /\ stack \in Seq(Screens) /\ stack # <<>> /\ stack[1] \in {"login", "tabs"}
         /\ Top \in Screens
         /\ signin \in SignInType /\ logout \in LogoutType
         /\ jumps \in 0 .. MaxJumps /\ odd \subseteq Oddities /\ lost \in BOOLEAN
<1>1. Last(stack) \in Screens
  BY DEF Typed, TypeOK, Screens, Last
<1>. QED
  BY <1>1 DEF Typed, TypeOK, RootStays, Screens, SignInType, LogoutType, Top

\* The tabs' user after a step that shows s.
LEMMA ShowType ==
  ASSUME Typed, NEW s, Show(s), s \in Seq(Screens), s # <<>>, s[1] \in {"login", "tabs"}
  PROVE  /\ stack' \in Seq(Screens) /\ stack' # <<>> /\ RootStays'
         /\ tabsUser' \in Users
  BY TypedIs DEF Show, RootStays, Users

LEMMA ShowTabsType ==
  ASSUME Typed, userId' \in Users, NEW s, ShowTabs(s), s \in Seq(Screens), s # <<>>,
         s[1] \in {"login", "tabs"}
  PROVE  /\ stack' \in Seq(Screens) /\ stack' # <<>> /\ RootStays'
         /\ tabsUser' \in Users
  BY DEF ShowTabs, RootStays

LEMMA OneScreen ==
  /\ <<"login">> \in Seq(Screens) /\ <<"login">> # <<>> /\ <<"login">>[1] = "login"
  /\ <<"tabs">> \in Seq(Screens) /\ <<"tabs">> # <<>> /\ <<"tabs">>[1] = "tabs"
  BY DEF Screens

LEMMA RestartType ==
  ASSUME Typed, userId' \in Users, Restart
  PROVE  /\ stack' \in Seq(Screens) /\ stack' # <<>> /\ RootStays'
         /\ tabsUser' \in Users /\ signin' \in SignInType /\ logout' \in LogoutType
         /\ jumps' \in 0 .. MaxJumps /\ lost' \in BOOLEAN
<1>1. /\ stack' \in Seq(Screens) /\ stack' # <<>> /\ RootStays' /\ tabsUser' \in Users
  <2>1. CASE ShowTabs(<<"tabs">>)
    BY <2>1, OneScreen, ShowTabsType
  <2>2. CASE Show(<<"login">>)
    BY <2>2, OneScreen, ShowType
  <2>. QED
    BY <2>1, <2>2 DEF Restart
<1>2. /\ FreeSignIn \in [kind : Kinds, at : {"free", "sent", "served", "opening"},
                          account : Users, token : Tokens \cup {None}, here : BOOLEAN]
      /\ FreeLogout \in [at : {"free", "sent", "served", "refused"},
                          token : Tokens \cup {None}]
  BY DEF FreeSignIn, FreeLogout, Kinds, Users
<1>3. signin' \in SignInType /\ logout' \in LogoutType
  BY <1>2 DEF Restart, SignInType, LogoutType
<1>4. lost' \in BOOLEAN
  BY Zenon DEF Restart
<1>. QED
  BY <1>1, <1>3, <1>4, SessionAssumption DEF Restart

\* A logout that is given up touches neither owners nor valid tokens.
LEMMA GiveUpType ==
  ASSUME Typed, NEW Q, GiveUp(Q)
  PROVE  UNCHANGED <<owner, valid>> /\ late' \subseteq valid'
  BY TypedIs DEF GiveUp

\* The type invariant is kept by every step.
LEMMA TypedStep ==
  ASSUME Typed, InUse, [Next]_vars
  PROVE  Typed'
<1>. USE SessionAssumption, TypedIs
<1>. DEFINE T == /\ owner \in [Tokens -> Users] /\ valid \subseteq {t \in Tokens : owner[t] # None}
                 /\ late \subseteq valid
                 /\ keychain \in Tokens \cup {None} /\ userId \in Users
            St == stack \in Seq(Screens) /\ stack # <<>> /\ RootStays /\ tabsUser \in Users
            R == signin \in SignInType /\ logout \in LogoutType
            H == jumps \in 0 .. MaxJumps /\ odd \subseteq Oddities /\ lost \in BOOLEAN
<1>0. /\ T /\ St /\ R /\ H
      /\ T' /\ St' /\ R' /\ H' => Typed'
  BY DEF Typed, TypeOK, Screens, SignInType, LogoutType
<1>. HIDE DEF T, St, R, H
<1>1. CASE OpenSignUp
  <2>1. St'
    BY <1>1, AppendType, ShowType DEF St, OpenSignUp, Screens
  <2>. QED
    BY <1>0, <1>1, <2>1 DEF OpenSignUp, T, R, H, server, device, history
<1>2. CASE BackToLogin
  <2>1. St'
    BY <1>2, FrontType, ShowType DEF St, BackToLogin, Top
  <2>. QED
    BY <1>0, <1>2, <2>1, HereInType DEF BackToLogin, T, R, H, server, device, history
<1>3. ASSUME NEW r \in SignIns, NEW a \in Accounts, SendSignIn(r, a) PROVE Typed'
  <2>1. R'
    BY <1>3 DEF R, SendSignIn, SignInType, Kinds, Users
  <2>2. H'
    BY <1>3 DEF H, SendSignIn, Oddities
  <2>. QED
    BY <1>0, <1>3, <2>1, <2>2 DEF SendSignIn, T, St, RootStays, server, device
<1>4. ASSUME NEW r \in SignIns, NEW t \in Tokens, ServeSignIn(r, t) PROVE Typed'
  <2>1. R'
    BY <1>4 DEF R, ServeSignIn, SignInType
  <2>2. T'
    BY <1>4, <1>0 DEF T, ServeSignIn, SignInType, Users, device, InUse
  <2>. QED
    BY <1>0, <1>4, <2>1, <2>2 DEF ServeSignIn, St, H, RootStays, history
<1>5. ASSUME NEW r \in SignIns, SignInFails(r) PROVE Typed'
  <2>1. R'
    BY <1>5 DEF R, SignInFails, SignInType, FreeSignIn, Kinds, Users
  <2>. QED
    BY <1>0, <1>5, <2>1 DEF SignInFails, T, St, H, RootStays, server, device, history
<1>6. ASSUME NEW r \in SignIns, SignInAnswered(r) PROVE Typed'
  <2>1. R'
    BY <1>6 DEF R, SignInAnswered, SignInType
  <2>2. T' /\ H'
    BY <1>0, <1>6 DEF T, H, SignInAnswered, StoreToken, SignInType, Oddities, server
  <2>. QED
    BY <1>0, <1>6, <2>1, <2>2 DEF SignInAnswered, St, RootStays
<1>7. ASSUME NEW r \in SignIns, Open(r) PROVE Typed'
  <2>1. T' /\ H'
    BY <1>0, <1>7 DEF T, H, Open, Oddities, server, device
  <2>2. [signin EXCEPT ![r] = FreeSignIn] \in SignInType
    BY DEF SignInType, FreeSignIn, Kinds, Users
  <2>3. R'
    <3>1. NoneHere([signin EXCEPT ![r] = FreeSignIn]) \in SignInType
      BY <2>2, HereInType
    <3>2. signin' \in SignInType
      BY <1>7, <2>2, <3>1, Zenon DEF Open
    <3>. QED
      BY <1>0, <1>7, <3>2 DEF R, Open
  <2>4. userId' \in Users
    BY <2>1 DEF T
  <2>5. ASSUME UNCHANGED <<stack, tabsUser>> PROVE St'
    BY <1>0, <2>5 DEF St, RootStays
  <2>6. ASSUME ShowTabs(<<"tabs">>) PROVE St'
    BY <2>4, <2>6, OneScreen, ShowTabsType DEF St
  <2>7. ASSUME ShowTabs(Append(stack, "tabs")) PROVE St'
    BY <2>4, <2>7, AppendType, ShowTabsType DEF St, Screens
  <2>. QED
    BY <1>0, <1>7, <2>1, <2>3, <2>5, <2>6, <2>7 DEF Open
<1>8. ASSUME NEW q \in Logouts, SendLogout(q) \/ ServeLogout(q) PROVE Typed'
  <2>1. R'
    BY <1>8 DEF R, SendLogout, ServeLogout, LogoutType
  <2>2. T'
    BY <1>0, <1>8 DEF T, SendLogout, ServeLogout, server, device
  <2>. QED
    BY <1>0, <1>8, <2>1, <2>2
    DEF SendLogout, ServeLogout, St, H, RootStays, history
<1>9. ASSUME NEW q \in Logouts, LogoutAnswered(q) PROVE Typed'
  <2>1. R'
    BY <1>9, HereInType DEF R, LogoutAnswered, LogoutType, FreeLogout
  <2>2. T' /\ H'
    BY <1>0, <1>9 DEF T, H, LogoutAnswered, Remains, Oddities, Users, server
  <2>3. St'
    BY <1>9, OneScreen, ShowType DEF LogoutAnswered, St
  <2>. QED
    BY <1>0, <2>1, <2>2, <2>3
<1>10. ASSUME NEW q \in Logouts, LogoutFails(q) PROVE Typed'
  <2>1. R'
    BY <1>10 DEF R, LogoutFails, LogoutType, FreeLogout
  <2>2. H'
    BY <1>10, Zenon DEF H, LogoutFails
  <2>3. UNCHANGED <<owner, valid, keychain, userId>> /\ late' \subseteq valid'
    BY <1>10, GiveUpType DEF LogoutFails, device
  <2>. QED
    BY <1>0, <1>10, <2>1, <2>2, <2>3 DEF LogoutFails, T, St, RootStays
<1>11. CASE OpenPage
  <2>1. St'
    BY <1>11, AppendType, ShowType DEF St, OpenPage, Screens
  <2>. QED
    BY <1>0, <1>11, <2>1 DEF OpenPage, T, R, H, server, device, history
<1>12. CASE LeavePage
  <2>1. St'
    BY <1>12, FrontType, ShowType DEF St, LeavePage, Top
  <2>. QED
    BY <1>0, <1>12, <2>1 DEF LeavePage, T, R, H, server, device, history
<1>13. CASE PopToRoot
  <2>1. <<Head(stack)>> \in Seq(Screens) /\ <<Head(stack)>> # <<>>
        /\ <<Head(stack)>>[1] \in {"login", "tabs"}
    BY DEF Screens
  <2>2. St'
    BY <1>13, <2>1, ShowType DEF St, PopToRoot
  <2>3. H'
    BY <1>13 DEF H, PopToRoot, Oddities
  <2>. QED
    BY <1>0, <1>13, <2>2, <2>3, HereInType DEF PopToRoot, T, R, server, device
<1>14. CASE NewTabs
  <2>1. T' /\ H' /\ R'
    BY <1>0, <1>14, HereInType DEF NewTabs, T, H, R, server, device, history
  <2>2. St'
    BY <1>14, <2>1, OneScreen, ShowTabsType DEF NewTabs, St, T
  <2>. QED
    BY <1>0, <2>1, <2>2
<1>15. CASE Settled
  BY <1>0, <1>15 DEF Settled, T, H, R, St, RootStays, server, device, history
<1>16. CASE Jump
  <2>1. T' /\ H' /\ R'
    BY <1>0, <1>16, HereInType DEF Jump, T, H, R, server, device, history
  <2>2. St'
    BY <1>16, <2>1, OneScreen, ShowTabsType DEF Jump, St, T
  <2>. QED
    BY <1>0, <2>1, <2>2
<1>17. ASSUME Restart, keychain' \in Tokens \cup {None}, userId' \in Users,
              NEW o \in SUBSET Oddities, OddAfter(o)
       PROVE  Typed'
  <2>1. St' /\ R' /\ H'
    BY <1>17, RestartType DEF St, R, H, OddAfter
  <2>2. UNCHANGED <<owner, valid>> /\ late' \subseteq valid'
    BY <1>17, GiveUpType DEF Restart
  <2>. QED
    BY <1>0, <1>17, <2>1, <2>2 DEF T
<1>18. CASE Dies
  BY <1>17, <1>18 DEF Dies, device
<1>19. ASSUME NEW r \in SignIns, DiesSigningIn(r) PROVE Typed'
  <2>1. keychain' \in Tokens \cup {None}
    BY <1>19 DEF DiesSigningIn, StoreToken, SignInType
  <2>. QED
    BY <1>17, <1>19, <2>1 DEF DiesSigningIn, Oddities
<1>20. ASSUME NEW q \in Logouts, DiesSigningOut(q) PROVE Typed'
  BY <1>17, <1>20 DEF DiesSigningOut, Oddities
<1>21. CASE Reinstall
  BY <1>17, <1>21 DEF Reinstall, Oddities, Users
<1>22. ASSUME NEW t \in Tokens, ServeLate(t) PROVE Typed'
  <2>1. H'
    BY <1>22, <1>0, Zenon DEF H, ServeLate
  <2>. QED
    BY <1>0, <1>22, <2>1 DEF ServeLate, T, St, R, RootStays, device
<1>23. CASE UNCHANGED vars
  BY <1>0, <1>23 DEF vars, T, St, R, H, RootStays
<1>. QED
  BY <1>1, <1>2, <1>3, <1>4, <1>5, <1>6, <1>7, <1>8, <1>9, <1>10, <1>11, <1>12,
     <1>13, <1>14, <1>15, <1>16, <1>18, <1>19, <1>20, <1>21, <1>22, <1>23 DEF Next

-----------------------------------------------------------------------------
(* Tokens.                                                                 *)

\* Only the accounts, tokens and progress of requests matter here.
LEMMA TokensFrame ==
  ASSUME TokensKept, UNCHANGED <<server, keychain, logout, lost>>,
         \A r \in SignIns :
            /\ signin'[r].at = signin[r].at /\ signin'[r].token = signin[r].token
            /\ signin'[r].account = signin[r].account
            /\ signin'[r].here => signin[r].here
  PROVE  TokensKept'
<1>. USE DEF TokensKept, server
<1>1. InUse'
  BY DEF InUse
<1>2. Issued' /\ Unstored' /\ Asked' /\ Abandoned' /\ RevokedExplained'
  BY DEF Issued, Unstored, Asked, Abandoned, RevokedExplained
<1>. QED
  BY <1>1, <1>2

\* Giving up a logout leaves at most the token on the device to be revoked, and
\* nothing if no request asked for that.
LEMMA GiveUpKeeps ==
  ASSUME Typed, TokensKept, NEW Q \in SUBSET Logouts, GiveUp(Q)
  PROVE  /\ UNCHANGED <<owner, valid>>
         /\ late' \subseteq valid' \cap {keychain}
         /\ late = {} /\ (\A q \in Logouts : logout[q].token # keychain) => late' = {}
<1>1. \A t \in valid, q \in Q : logout[q] = [at |-> "sent", token |-> t] => t = keychain
  BY DEF TokensKept, Asked
<1>. QED
  BY <1>1 DEF GiveUp, TokensKept, Abandoned

\* A new process has no requests.
LEMMA TokensRestart ==
  ASSUME Typed, TokensKept, Restart,
         \/ keychain' = keychain
         \/ keychain' = None /\ keychain \notin valid
         \/ keychain' \in valid /\ keychain = None
  PROVE  TokensKept'
<1>. USE TypedIs, SessionAssumption DEF Restart
<1>0. /\ UNCHANGED <<owner, valid>> /\ late' \subseteq valid' \cap {keychain}
  BY GiveUpKeeps
<1>1. /\ \A r \in SignIns : signin'[r] = FreeSignIn
      /\ \A q \in Logouts : logout'[q] = FreeLogout
  OBVIOUS
<1>2. /\ FreeSignIn.at = "free" /\ ~FreeSignIn.here
      /\ FreeLogout.at = "free" /\ FreeLogout.token = None
  BY DEF FreeSignIn, FreeLogout
<1>3. InUse' /\ Unstored'
  BY <1>1, <1>2 DEF InUse, Unstored
<1>4. Issued' /\ Asked'
  BY <1>0, <1>1, <1>2 DEF Issued, Asked, TokensKept
<1>5. Abandoned'
  BY <1>0 DEF Abandoned
<1>6. RevokedExplained'
  <2>. SUFFICES ASSUME keychain' # None, keychain' \notin valid'
                PROVE  lost'
    BY DEF RevokedExplained
  <2>1. keychain' = keychain /\ valid' = valid
    BY <1>0
  <2>2. lost \/ \E q \in Logouts : logout[q].at = "served"
    BY <2>1 DEF TokensKept, RevokedExplained
  <2>. QED
    BY <2>1, <2>2, Zenon
<1>. QED
  BY <1>3, <1>4, <1>5, <1>6 DEF TokensKept

\* Tokens stay where they belong in every step.
LEMMA TokensStep ==
  ASSUME Typed, TokensKept, [Next]_vars
  PROVE  TokensKept'
<1>. USE SessionAssumption, TypedIs
<1>1. ASSUME UNCHANGED <<server, keychain, logout, signin, lost>> PROVE TokensKept'
  BY <1>1, TokensFrame
<1>2. ASSUME UNCHANGED <<server, keychain, logout, lost>>,
             signin' = HereIn(signin, stack') \/ signin' = NoneHere(signin)
      PROVE  TokensKept'
  <2>1. \A r \in SignIns :
            /\ signin'[r].at = signin[r].at /\ signin'[r].token = signin[r].token
            /\ signin'[r].account = signin[r].account
            /\ signin'[r].here => signin[r].here
    <3>1. ASSUME NEW s, signin' = HereIn(signin, s)
          PROVE  \A r \in SignIns :
                    /\ signin'[r].at = signin[r].at /\ signin'[r].token = signin[r].token
                    /\ signin'[r].account = signin[r].account
                    /\ signin'[r].here => signin[r].here
      BY <3>1 DEF HereIn, SignInType
    <3>2. CASE signin' = NoneHere(signin)
      BY <3>2, HereInType
    <3>. QED
      BY <1>2, <3>1, <3>2
  <2>. QED
    BY <1>2, <2>1, TokensFrame
<1>3. ASSUME NEW r \in SignIns, NEW a \in Accounts, SendSignIn(r, a) PROVE TokensKept'
  <2>1. UNCHANGED <<owner, valid, late, keychain, logout, lost>>
    BY <1>3 DEF SendSignIn, server, device
  <2>2. /\ signin'[r].at = "sent" /\ signin'[r].account # None
        /\ \A s \in SignIns \ {r} : signin'[s] = signin[s]
    BY <1>3 DEF SendSignIn, SignInType
  <2>. QED
    BY <2>1, <2>2 DEF TokensKept, InUse, Issued, Unstored, Asked, Abandoned, RevokedExplained
<1>4. ASSUME NEW r \in SignIns, NEW t \in Tokens, ServeSignIn(r, t) PROVE TokensKept'
  <2>1. UNCHANGED <<keychain, late, logout, lost>>
    BY <1>4 DEF ServeSignIn, device, history
  <2>2. /\ signin[r].at = "sent" /\ signin'[r].at = "served" /\ signin'[r].token = t
        /\ signin'[r].account = signin[r].account /\ signin'[r].here = signin[r].here
        /\ \A s \in SignIns \ {r} : signin'[s] = signin[s]
    BY <1>4 DEF ServeSignIn, SignInType
  <2>3. /\ owner[t] = None /\ owner'[t] = signin[r].account
        /\ \A u \in Tokens \ {t} : owner'[u] = owner[u]
        /\ valid' = valid \cup {t}
    BY <1>4 DEF ServeSignIn
  <2>4. signin[r].account # None /\ t # keychain
    BY <2>2, <2>3 DEF TokensKept, InUse, Issued
  <2>5. InUse' /\ Issued'
    BY <2>1, <2>2, <2>3, <2>4 DEF TokensKept, InUse, Issued, LogoutType
  <2>6. Unstored'
    BY <2>1, <2>2, <2>3, <2>4 DEF TokensKept, Unstored
  <2>7. Asked' /\ Abandoned' /\ RevokedExplained'
    BY <2>1, <2>3, <2>4 DEF TokensKept, Issued, Asked, Abandoned, RevokedExplained
  <2>. QED
    BY <2>5, <2>6, <2>7 DEF TokensKept
<1>5. ASSUME NEW r \in SignIns, SignInFails(r) PROVE TokensKept'
  <2>1. /\ UNCHANGED <<owner, valid, late, keychain, logout, lost>>
        /\ signin'[r].at = "free" /\ ~signin'[r].here
        /\ \A s \in SignIns \ {r} : signin'[s] = signin[s]
    BY <1>5 DEF SignInFails, SignInType, FreeSignIn, server, device, history
  <2>. QED
    BY <2>1 DEF TokensKept, InUse, Issued, Unstored, Asked, Abandoned, RevokedExplained
<1>6. ASSUME NEW r \in SignIns, SignInAnswered(r) PROVE TokensKept'
  <2>1. UNCHANGED <<owner, valid, late, logout, lost>>
    BY <1>6 DEF SignInAnswered, server
  <2>2. /\ signin[r].at = "served" /\ signin'[r].at = "opening"
        /\ signin'[r].account = signin[r].account
        /\ \A s \in SignIns \ {r} : signin'[s] = signin[s]
    BY <1>6 DEF SignInAnswered, SignInType
  <2>3. keychain' = IF keychain = None THEN signin[r].token ELSE keychain
    BY <1>6 DEF SignInAnswered, StoreToken
  <2>. QED
    BY <2>1, <2>2, <2>3
    DEF TokensKept, InUse, Issued, Unstored, Asked, Abandoned, RevokedExplained
<1>7. ASSUME NEW r \in SignIns, Open(r) PROVE TokensKept'
  <2>1. UNCHANGED <<owner, valid, late, keychain, logout, lost>>
    BY <1>7 DEF Open, server, device
  <2>2. DEFINE S == [signin EXCEPT ![r] = FreeSignIn]
  <2>3. /\ S \in SignInType /\ S[r].at = "free" /\ ~S[r].here
        /\ \A s \in SignIns \ {r} : S[s] = signin[s]
    BY DEF SignInType, FreeSignIn, Kinds, Users
  <2>4. signin' = S \/ signin' = NoneHere(S)
    BY <1>7 DEF Open
  <2>. HIDE DEF S
  <2>5. /\ signin'[r].at = "free" /\ ~signin'[r].here
        /\ \A s \in SignIns \ {r} :
             /\ signin'[s].at = signin[s].at /\ signin'[s].token = signin[s].token
             /\ signin'[s].account = signin[s].account
             /\ signin'[s].here => signin[s].here
    BY <2>3, <2>4, HereInType
  <2>. QED
    BY <2>1, <2>5 DEF TokensKept, InUse, Issued, Unstored, Asked, Abandoned, RevokedExplained
<1>8. ASSUME NEW q \in Logouts, SendLogout(q) PROVE TokensKept'
  <2>1. /\ UNCHANGED <<owner, valid, late, keychain, signin, lost>>
        /\ logout[q].at = "free"
        /\ logout'[q].at = "sent" /\ logout'[q].token = keychain
        /\ \A p \in Logouts \ {q} : logout'[p] = logout[p]
    BY <1>8 DEF SendLogout, LogoutType, server, device, history
  <2>. QED
    BY <2>1 DEF TokensKept, InUse, Issued, Unstored, Asked, Abandoned, RevokedExplained
<1>9. ASSUME NEW q \in Logouts, ServeLogout(q) PROVE TokensKept'
  <2>1. UNCHANGED <<owner, keychain, signin, lost>>
    BY <1>9 DEF ServeLogout, device, history
  <2>2. /\ logout[q].at = "sent" /\ logout'[q].token = logout[q].token
        /\ logout'[q].at = IF logout[q].token \in valid THEN "served" ELSE "refused"
        /\ \A p \in Logouts \ {q} : logout'[p] = logout[p]
        /\ valid' = valid \ {logout[q].token} /\ late' = late \ {logout[q].token}
    BY <1>9 DEF ServeLogout, LogoutType
  <2>3. InUse' /\ Issued' /\ Unstored'
    BY <2>1, <2>2 DEF TokensKept, InUse, Issued, Unstored, Asked
  <2>4. Asked' /\ Abandoned'
    BY <2>1, <2>2 DEF TokensKept, Asked, Abandoned
  <2>5. RevokedExplained'
    BY <1>9, <2>1, <2>2 DEF TokensKept, Asked, RevokedExplained, ServeLogout, LogoutType
  <2>. QED
    BY <2>3, <2>4, <2>5 DEF TokensKept
<1>10. ASSUME NEW q \in Logouts, LogoutAnswered(q) PROVE TokensKept'
  <2>1. /\ UNCHANGED <<owner, valid, late>> /\ keychain' = None
        /\ logout[q].at = "served" /\ logout'[q] = FreeLogout
        /\ \A p \in Logouts \ {q} : logout'[p] = logout[p]
    BY <1>10 DEF LogoutAnswered, LogoutType, server
  <2>2. /\ keychain \notin valid /\ keychain # None
        /\ \A p \in Logouts : logout[p].token \notin valid
        /\ \A p \in Logouts : logout[p].at = "served" => p = q
    BY <2>1 DEF TokensKept, Asked
  <2>3. signin' = NoneHere(signin)
    BY <1>10 DEF LogoutAnswered
  <2>4. InUse' /\ Issued'
    BY <2>1, <2>3, HereInType DEF TokensKept, InUse, Issued, FreeLogout
  <2>5. Unstored'
    <3>1. \A r \in SignIns :
              /\ signin'[r].at = signin[r].at /\ signin'[r].token = signin[r].token
              /\ signin'[r].account = signin[r].account
      BY <2>3, HereInType
    <3>2. keychain' \notin valid
      BY <2>1
    <3>. QED
      BY <2>1, <3>1, <3>2 DEF TokensKept, Unstored
  <2>6. RevokedExplained'
    BY <2>1 DEF RevokedExplained
  <2>7. Asked' /\ Abandoned'
    BY <2>1, <2>2 DEF Asked, FreeLogout, TokensKept, Abandoned
  <2>. QED
    BY <2>4, <2>5, <2>6, <2>7 DEF TokensKept
<1>11. ASSUME NEW q \in Logouts, LogoutFails(q) PROVE TokensKept'
  <2>0. UNCHANGED <<owner, valid>> /\ late' \subseteq valid' \cap {keychain}
    BY <1>11, GiveUpKeeps DEF LogoutFails
  <2>1. /\ UNCHANGED <<owner, valid, keychain, signin>>
        /\ lost' = (lost \/ logout[q].at = "served") /\ logout'[q] = FreeLogout
        /\ \A p \in Logouts \ {q} : logout'[p] = logout[p]
    BY <1>11, <2>0 DEF LogoutFails, LogoutType, device
  <2>2. InUse' /\ Issued' /\ Unstored' /\ Asked' /\ Abandoned'
    BY <2>0, <2>1 DEF TokensKept, InUse, Issued, Unstored, Asked, Abandoned, FreeLogout
  <2>3. RevokedExplained'
    <3>. SUFFICES ASSUME keychain # None, keychain \notin valid
                  PROVE  lost' \/ \E p \in Logouts :
                            logout'[p] = [at |-> "served", token |-> keychain]
      BY <2>1 DEF RevokedExplained
    <3>1. CASE lost \/ logout[q].at = "served"
      BY <2>1, <3>1, Zenon
    <3>2. CASE ~lost /\ logout[q].at # "served"
      <4>1. PICK p \in Logouts : logout[p] = [at |-> "served", token |-> keychain]
        BY <3>2 DEF TokensKept, RevokedExplained
      <4>. QED
        BY <2>1, <3>2, <4>1
    <3>. QED
      BY <3>1, <3>2
  <2>. QED
    BY <2>2, <2>3 DEF TokensKept
<1>12. CASE Dies
  BY <1>12, TokensRestart DEF Dies, device
<1>13. ASSUME NEW r \in SignIns, DiesSigningIn(r) PROVE TokensKept'
  BY <1>13, TokensRestart DEF DiesSigningIn, StoreToken, TokensKept, Unstored
<1>14. ASSUME NEW q \in Logouts, DiesSigningOut(q) PROVE TokensKept'
  BY <1>14, TokensRestart DEF DiesSigningOut, TokensKept, Asked
<1>15. CASE Reinstall
  BY <1>15, TokensRestart DEF Reinstall
<1>16. CASE OpenSignUp \/ OpenPage \/ LeavePage \/ Settled \/ UNCHANGED vars
  BY <1>1, <1>16
  DEF OpenSignUp, OpenPage, LeavePage, Settled, vars, server, device, history
<1>17. CASE BackToLogin \/ PopToRoot \/ NewTabs \/ Jump
  BY <1>2, <1>17 DEF BackToLogin, PopToRoot, NewTabs, Jump, server, device, history
<1>18. ASSUME NEW t \in Tokens, ServeLate(t) PROVE TokensKept'
  <2>1. /\ UNCHANGED <<owner, keychain, logout, signin>> /\ valid' = valid \ {t}
        /\ late' = late \ {t}
    BY <1>18 DEF ServeLate, device
  <2>2. t = keychain /\ t \in valid /\ lost'
    BY <1>18 DEF ServeLate, TokensKept, Abandoned
  <2>3. InUse' /\ Issued' /\ Unstored'
    BY <2>1, <2>2 DEF TokensKept, InUse, Issued, Unstored
  <2>4. Asked' /\ Abandoned' /\ RevokedExplained'
    BY <2>1, <2>2 DEF TokensKept, Asked, Abandoned, RevokedExplained
  <2>. QED
    BY <2>3, <2>4 DEF TokensKept
<1>. QED
  BY <1>3, <1>4, <1>5, <1>6, <1>7, <1>8, <1>9, <1>10, <1>11, <1>12, <1>13, <1>14,
     <1>15, <1>16, <1>17, <1>18 DEF Next

-----------------------------------------------------------------------------
(* A session that nothing odd has happened to.                             *)

\* Steps that move between screens.
LEMMA PlainFrame ==
  ASSUME Typed, TokensKept, Plain, odd = {},
         stack' \in Shapes, HasTabs' <=> HasTabs, HasTabs => tabsUser' = tabsUser,
         UNCHANGED <<server, keychain, userId, logout>>,
         HasTabs \/ jumps' = jumps,
         \A r \in SignIns :
            /\ signin'[r].at = signin[r].at /\ signin'[r].kind = signin[r].kind
            /\ signin'[r].here => signin[r].here /\ Contains(stack', signin[r].kind)
  PROVE  Plain'
<1>. USE DEF server
<1>1. InFlight' = InFlight
  BY DEF InFlight
<1>2. Alone'
  BY <1>1 DEF Plain, Alone
<1>3. CASE Signed
  BY <1>2, <1>3 DEF Plain, Signed
<1>4. CASE SignedOut
  BY <1>2, <1>4 DEF Plain, SignedOut, NotSigned
<1>5. CASE SigningIn
  BY <1>1, <1>2, <1>5 DEF Plain, SigningIn, Opening
<1>. QED
  BY <1>3, <1>4, <1>5 DEF Plain

\* A process that starts finds a plain session, or none.
LEMMA PlainRestart ==
  ASSUME Typed, Plain, Restart, odd' = {},
         keychain' # None => odd = {} /\ keychain' = keychain /\ userId' = userId
  PROVE  Plain'
<1>. USE DEF Restart, GiveUp
<1>1. /\ <<"login">> \in Shapes /\ ~Contains(<<"login">>, "tabs")
      /\ <<"tabs">> \in Shapes /\ Contains(<<"tabs">>, "tabs")
  BY ShapeFacts DEF Shapes
<1>2. \A r \in SignIns : ~signin'[r].here
  BY DEF FreeSignIn
<1>3. Alone'
  BY <1>2 DEF Alone
<1>4. CASE keychain' = None
  BY <1>1, <1>2, <1>3, <1>4 DEF Plain, Show, SignedOut, NotSigned, HasTabs
<1>5. CASE keychain' # None
  <2>1. keychain' = keychain /\ userId' = userId /\ userId = owner[keychain]
    BY <1>5 DEF Plain, Signed, SignedOut, NotSigned, SigningIn, Opening
  <2>. QED
    BY <1>1, <1>3, <1>5, <2>1 DEF Plain, ShowTabs, Signed, HasTabs
<1>. QED
  BY <1>4, <1>5

\* Nothing but the oddities leaves the plain session.
LEMMA PlainStep ==
  ASSUME Typed, TokensKept, Plain, [Next]_vars
  PROVE  Plain'
<1>. SUFFICES ASSUME odd' = {} PROVE Plain'
  BY DEF Plain
<1>. USE SessionAssumption, TypedIs
<1>0. ASSUME odd = {}
      PROVE  /\ stack \in Shapes /\ Alone /\ (Signed \/ SignedOut \/ SigningIn)
             /\ HasTabs => Signed
             /\ \A r \in SignIns : signin[r].here => Contains(stack, signin[r].kind)
             /\ <<"login", "signup">> \in Shapes /\ <<"tabs">> \in Shapes
             /\ <<"login">> \in Shapes
  BY <1>0 DEF Plain, SignedOut, NotSigned, SigningIn, Alone, Shapes
<1>1. CASE OpenSignUp
  <2>1. odd = {} /\ stack = <<"login">>
    BY <1>0, <1>1, ShapeFacts DEF OpenSignUp, history, Top
  <2>2. stack' = <<"login", "signup">>
    BY <1>1, <2>1, ShapeMoves DEF OpenSignUp, Show
  <2>3. ~HasTabs /\ ~HasTabs'
    BY <1>0, <2>1, <2>2, ShapeFacts DEF HasTabs
  <2>4. \A r \in SignIns : signin[r].here => Contains(stack', signin[r].kind)
    BY <1>0, <2>1, <2>2, ShapeFacts DEF SignInType, Kinds
  <2>. QED
    BY <1>0, <1>1, <2>1, <2>2, <2>3, <2>4, PlainFrame
    DEF OpenSignUp, server, device, history
<1>2. CASE BackToLogin
  <2>1. odd = {} /\ stack = <<"login", "signup">>
    BY <1>0, <1>2, ShapeFacts DEF BackToLogin, history, Top
  <2>2. stack' = <<"login">>
    BY <1>2, <2>1, ShapeMoves DEF BackToLogin, Show
  <2>3. ~HasTabs /\ ~HasTabs'
    BY <1>0, <2>1, <2>2, ShapeFacts DEF HasTabs
  <2>4. \A r \in SignIns :
            /\ signin'[r].at = signin[r].at /\ signin'[r].kind = signin[r].kind
            /\ signin'[r].here => signin[r].here /\ Contains(stack', signin[r].kind)
    BY <1>2 DEF BackToLogin, HereIn, SignInType
  <2>. QED
    BY <1>0, <1>2, <2>1, <2>2, <2>3, <2>4, PlainFrame
    DEF BackToLogin, server, device, history
<1>3. ASSUME NEW r \in SignIns, NEW a \in Accounts, SendSignIn(r, a) PROVE Plain'
  <2>1. odd = {} /\ InFlight = {}
    BY <1>3 DEF SendSignIn
  <2>2. ~HasTabs
    BY <1>0, <1>3, <2>1, ShapeFacts DEF SendSignIn, HasTabs, Kinds, Top
  <2>3. SignedOut
    BY <1>0, <2>1, <2>2 DEF Signed, SigningIn, Opening
  <2>4. /\ signin'[r].at = "sent" /\ signin'[r].kind = Last(stack)
        /\ \A s \in SignIns \ {r} : signin'[s] = signin[s] /\ ~signin[s].here
    BY <1>3, <2>1 DEF SendSignIn, SignInType, InFlight, TokensKept, InUse, Top
  <2>5. InFlight' = {r} /\ Contains(stack, Last(stack))
    BY <2>1, <2>4 DEF InFlight, Contains, Last
  <2>. QED
    BY <1>0, <1>3, <2>1, <2>2, <2>3, <2>4, <2>5
    DEF Plain, Alone, SignedOut, NotSigned, SendSignIn, HasTabs, server, device
<1>4. ASSUME NEW r \in SignIns, NEW t \in Tokens, ServeSignIn(r, t) PROVE Plain'
  <2>1. odd = {} /\ UNCHANGED <<keychain, userId, stack, tabsUser, logout, jumps>>
    BY <1>4 DEF ServeSignIn, device, history
  <2>2. /\ signin[r].at = "sent" /\ signin'[r].at = "served"
        /\ signin'[r].here = signin[r].here /\ signin'[r].kind = signin[r].kind
        /\ \A s \in SignIns \ {r} : signin'[s] = signin[s]
    BY <1>4 DEF ServeSignIn, SignInType
  <2>3. InFlight' = InFlight /\ r \in InFlight
    BY <2>2 DEF InFlight
  <2>4. ~SigningIn
    BY <2>2, <2>3 DEF SigningIn, Opening
  <2>5. Alone'
    BY <1>0, <2>1, <2>2, <2>3 DEF Alone, HasTabs
  <2>6. CASE Signed
    <3>1. keychain \in Tokens /\ keychain # t
      BY <1>4, <2>6 DEF ServeSignIn, Signed, TokensKept, Issued
    <3>2. owner'[keychain] = owner[keychain]
      BY <1>4, <3>1 DEF ServeSignIn
    <3>. QED
      BY <1>0, <2>1, <2>5, <2>6, <3>2 DEF Plain, Signed, HasTabs
  <2>7. CASE SignedOut
    BY <1>0, <2>1, <2>2, <2>5, <2>7 DEF Plain, SignedOut, NotSigned, HasTabs
  <2>. QED
    BY <1>0, <2>1, <2>4, <2>6, <2>7
<1>5. ASSUME NEW r \in SignIns, SignInFails(r) PROVE Plain'
  <2>1. /\ odd = {}
        /\ UNCHANGED <<server, keychain, userId, stack, tabsUser, logout, jumps>>
    BY <1>5 DEF SignInFails, server, device, history
  <2>2. /\ signin[r].at \in {"sent", "served"} /\ ~signin'[r].here /\ signin'[r].at = "free"
        /\ \A s \in SignIns \ {r} : signin'[s] = signin[s]
    BY <1>5 DEF SignInFails, SignInType, FreeSignIn
  <2>3. r \in InFlight
    BY <2>2 DEF InFlight
  <2>4. ~SigningIn /\ Alone'
    BY <1>0, <2>1, <2>2, <2>3 DEF SigningIn, Opening, Alone
  <2>5. CASE Signed
    BY <1>0, <2>1, <2>4, <2>5 DEF Plain, Signed, HasTabs, server
  <2>6. CASE SignedOut
    BY <1>0, <2>1, <2>2, <2>4, <2>6 DEF Plain, SignedOut, NotSigned, HasTabs
  <2>. QED
    BY <1>0, <2>1, <2>4, <2>5, <2>6
<1>6. ASSUME NEW r \in SignIns, SignInAnswered(r) PROVE Plain'
  <2>1. odd = {} /\ signin[r].here
    BY <1>6 DEF SignInAnswered
  <2>2. /\ UNCHANGED <<owner, valid, late, stack, tabsUser, logout, jumps>>
        /\ userId' = signin[r].account
    BY <1>6 DEF SignInAnswered, server
  <2>3. /\ signin[r].at = "served" /\ signin'[r].at = "opening"
        /\ signin'[r].here = signin[r].here /\ signin'[r].kind = signin[r].kind
        /\ \A s \in SignIns \ {r} : signin'[s] = signin[s]
    BY <1>6 DEF SignInAnswered, SignInType
  <2>4. InFlight' = {r} /\ InFlight = {r} /\ ~HasTabs
    BY <1>0, <2>1, <2>3 DEF InFlight, Alone
  <2>5. SignedOut
    BY <1>0, <2>1, <2>3, <2>4 DEF Signed, SigningIn, Opening
  <2>6. keychain = None /\ keychain' = signin[r].token
    BY <1>6, <2>5 DEF SignedOut, NotSigned, SignInAnswered, StoreToken
  <2>7. keychain' \in valid /\ owner[keychain'] = userId'
    BY <2>2, <2>3, <2>6 DEF TokensKept, Unstored
  <2>8. late = {} /\ \A q \in Logouts : logout[q].token # keychain'
    BY <2>6, <2>7 DEF TokensKept, Asked, Abandoned
  <2>9. Opening(r)'
    BY <2>2, <2>3, <2>4, <2>7, <2>8 DEF Opening
  <2>10. Alone'
    BY <1>0, <2>1, <2>2, <2>3, <2>4 DEF Alone, HasTabs
  <2>. QED
    BY <1>0, <2>1, <2>2, <2>4, <2>5, <2>9, <2>10 DEF Plain, SigningIn, SignedOut, HasTabs
<1>7. ASSUME NEW r \in SignIns, Open(r) PROVE Plain'
  <2>1. odd = {} /\ signin[r].here /\ signin[r].at = "opening"
    BY <1>7 DEF Open
  <2>2. InFlight = {r} /\ ~HasTabs /\ Contains(stack, signin[r].kind)
    BY <1>0, <2>1 DEF Alone
  <2>3. SigningIn /\ Opening(r)
    BY <1>0, <2>1, <2>2 DEF Signed, SignedOut, SigningIn, Opening
  <2>4. UNCHANGED <<owner, valid, keychain, userId>>
    BY <1>7 DEF Open, server, device
  <2>5. stack' \in {<<"tabs">>, <<"login", "signup", "tabs">>} /\ tabsUser' = userId
    <3>1. CASE signin[r].kind = "login"
      BY <1>7, <2>1, <2>4, <3>1 DEF Open, ShowTabs
    <3>2. CASE signin[r].kind = "signup"
      <4>1. stack = <<"login", "signup">>
        BY <1>0, <2>1, <2>2, <3>2, ShapeFacts DEF HasTabs
      <4>2. ShowTabs(Append(stack, "tabs"))
        BY <1>7, <2>1, <3>2 DEF Open
      <4>. QED
        BY <2>4, <4>1, <4>2, ShapeMoves DEF ShowTabs
    <3>. QED
      BY <3>1, <3>2 DEF SignInType, Kinds
  <2>6. stack' \in Shapes /\ HasTabs'
    BY <2>5, ShapeFacts DEF Shapes, HasTabs
  <2>7. Alone'
    <3>1. DEFINE S == [signin EXCEPT ![r] = FreeSignIn]
    <3>2. /\ S \in SignInType /\ ~S[r].here
          /\ \A s \in SignIns \ {r} : ~S[s].here
      BY <2>2 DEF SignInType, FreeSignIn, Kinds, Users, InFlight, TokensKept, InUse
    <3>3. signin' = S \/ signin' = NoneHere(S)
      BY <1>7 DEF Open
    <3>. HIDE DEF S
    <3>4. \A s \in SignIns : ~signin'[s].here
      BY <3>2, <3>3, HereInType
    <3>. QED
      BY <3>4 DEF Alone
  <2>. QED
    BY <2>3, <2>4, <2>5, <2>6, <2>7 DEF Plain, Signed, Opening
<1>8. ASSUME NEW q \in Logouts, SendLogout(q) PROVE Plain'
  <2>1. odd = {} /\ HasTabs
    BY <1>0, <1>8, ShapeFacts DEF SendLogout, history, HasTabs, Top
  <2>. QED
    BY <1>0, <1>8, <2>1
    DEF Plain, Signed, HasTabs, Alone, InFlight, SendLogout, server, device, history
<1>9. ASSUME NEW q \in Logouts, ServeLogout(q) \/ LogoutFails(q) PROVE Plain'
  <2>1. odd = {} /\ UNCHANGED <<owner, keychain, userId, stack, tabsUser, signin, jumps>>
    BY <1>9, GiveUpType DEF ServeLogout, LogoutFails, device, history
  <2>2. Alone' /\ InFlight' = InFlight
    BY <1>0, <2>1 DEF Alone, InFlight, HasTabs
  <2>3. CASE Signed \/ SignedOut
    BY <1>0, <2>1, <2>2, <2>3 DEF Plain, Signed, SignedOut, NotSigned, HasTabs
  <2>4. ASSUME NEW r \in SignIns, Opening(r) PROVE Opening(r)'
    <3>1. keychain # None /\ keychain # logout[q].token
      BY <2>4 DEF Opening
    <3>2. late' = {}
      <4>1. CASE ServeLogout(q)
        BY <2>4, <4>1 DEF ServeLogout, Opening
      <4>2. CASE LogoutFails(q)
        BY <2>4, <4>2, GiveUpKeeps DEF LogoutFails, Opening
      <4>. QED
        BY <1>9, <4>1, <4>2
    <3>3. /\ keychain \in valid'
          /\ logout'[q].token \in {logout[q].token, None}
          /\ \A p \in Logouts \ {q} : logout'[p] = logout[p]
      BY <1>9, <2>4, <3>1, GiveUpType
      DEF ServeLogout, LogoutFails, LogoutType, FreeLogout, Opening
    <3>. QED
      BY <2>1, <2>2, <2>4, <3>1, <3>2, <3>3 DEF Opening
  <2>. QED
    BY <1>0, <2>1, <2>2, <2>3, <2>4 DEF Plain, SigningIn, HasTabs
<1>10. ASSUME NEW q \in Logouts, LogoutAnswered(q) PROVE Plain'
  <2>1. jumps' = 0 /\ keychain' = None /\ stack' = <<"login">>
    <3>1. ~(jumps > 0) /\ UNCHANGED jumps
      BY <1>10 DEF LogoutAnswered, Remains
    <3>. QED
      BY <1>10, <3>1 DEF LogoutAnswered, Show
  <2>2. stack' \in Shapes /\ ~HasTabs'
    BY <2>1, ShapeFacts DEF Shapes, HasTabs
  <2>3. \A r \in SignIns : ~signin'[r].here
    BY <1>10, HereInType DEF LogoutAnswered
  <2>. QED
    BY <2>1, <2>2, <2>3 DEF Plain, Alone, SignedOut, NotSigned
<1>11. CASE OpenPage \/ LeavePage \/ PopToRoot \/ NewTabs
  <2>1. odd = {}
    BY <1>11 DEF OpenPage, LeavePage, PopToRoot, NewTabs, history
  <2>2. Top \in {"tabs", "page"}
    BY <1>11 DEF OpenPage, LeavePage, PopToRoot, NewTabs
  <2>3. HasTabs /\ Signed
    BY <1>0, <2>1, <2>2, ShapeFacts DEF HasTabs, Top
  <2>4. stack' \in {<<"tabs">>, <<"tabs", "page">>, <<"login", "signup", "tabs">>,
                    <<"login", "signup", "tabs", "page">>}
    <3>1. CASE OpenPage
      <4>1. stack \in {<<"tabs">>, <<"login", "signup", "tabs">>}
        BY <1>0, <2>1, <3>1, ShapeFacts DEF OpenPage, Top
      <4>. QED
        BY <3>1, <4>1, ShapeMoves DEF OpenPage, Show
    <3>2. CASE LeavePage
      <4>1. stack \in {<<"tabs", "page">>, <<"login", "signup", "tabs", "page">>}
        BY <1>0, <2>1, <3>2, ShapeFacts DEF LeavePage, Top
      <4>. QED
        BY <3>2, <4>1, ShapeMoves DEF LeavePage, Show
    <3>3. CASE PopToRoot
      <4>1. Head(stack) = stack[1]
        OBVIOUS
      <4>2. Head(stack) # "login"
        BY <3>3 DEF PopToRoot
      <4>3. Head(stack) = "tabs"
        BY <4>1, <4>2
      <4>. QED
        BY <3>3, <4>3 DEF PopToRoot, Show
    <3>4. CASE NewTabs
      BY <3>4 DEF NewTabs, ShowTabs
    <3>. QED
      BY <1>11, <3>1, <3>2, <3>3, <3>4
  <2>5. stack' \in Shapes /\ HasTabs'
    BY <2>4, ShapeFacts DEF Shapes, HasTabs
  <2>6. tabsUser' = tabsUser
    BY <1>11, <2>3, <2>5
    DEF OpenPage, LeavePage, PopToRoot, NewTabs, Show, ShowTabs, HasTabs, device, Signed
  <2>7. \A r \in SignIns :
            /\ signin'[r].at = signin[r].at /\ signin'[r].kind = signin[r].kind
            /\ signin'[r].here => signin[r].here /\ Contains(stack', signin[r].kind)
    BY <1>0, <1>11, <2>1, <2>3
    DEF OpenPage, LeavePage, PopToRoot, NewTabs, HereIn, NoneHere, SignInType, Alone
  <2>. QED
    BY <1>11, <2>1, <2>3, <2>5, <2>6, <2>7, PlainFrame
    DEF OpenPage, LeavePage, PopToRoot, NewTabs, server, device, history
<1>12. CASE Settled
  BY <1>0, <1>12
  DEF Settled, Plain, Signed, HasTabs, Alone, InFlight, server, device, history
<1>13. CASE Jump
  <2>1. odd = {} /\ jumps > 0 /\ stack' = <<"tabs">> /\ tabsUser' = userId'
        /\ UNCHANGED <<owner, valid, keychain, userId>>
    BY <1>13 DEF Jump, ShowTabs, server, device, history
  <2>2. Signed
    BY <1>0, <2>1 DEF SignedOut, SigningIn
  <2>3. stack' \in Shapes /\ HasTabs'
    BY <2>1, ShapeFacts DEF Shapes, HasTabs
  <2>4. Alone'
    BY <1>13, HereInType DEF Jump, Alone
  <2>. QED
    BY <2>1, <2>2, <2>3, <2>4 DEF Plain, Signed
<1>14. CASE Dies
  BY <1>14, PlainRestart DEF Dies, OddAfter, device
<1>15. ASSUME NEW r \in SignIns, DiesSigningIn(r) PROVE Plain'
  BY <1>15, PlainRestart DEF DiesSigningIn, OddAfter
<1>16. ASSUME NEW q \in Logouts, DiesSigningOut(q) PROVE Plain'
  BY <1>16, PlainRestart DEF DiesSigningOut, OddAfter
<1>17. CASE Reinstall
  BY <1>17, PlainRestart DEF Reinstall, OddAfter
<1>18. ASSUME NEW t \in Tokens, ServeLate(t) PROVE Plain'
  <2>1. /\ odd = {}
        /\ UNCHANGED <<owner, keychain, userId, stack, tabsUser, signin, logout, jumps>>
    BY <1>18 DEF ServeLate, device
  <2>2. Alone' /\ ~SigningIn
    BY <1>0, <1>18, <2>1 DEF Alone, InFlight, HasTabs, SigningIn, Opening, ServeLate
  <2>. QED
    BY <1>0, <2>1, <2>2 DEF Plain, Signed, SignedOut, NotSigned, HasTabs
<1>19. CASE UNCHANGED vars
  BY <1>19 DEF vars, Plain, Signed, SignedOut, NotSigned, SigningIn, Opening, Alone,
               InFlight, HasTabs
<1>. QED
  BY <1>1, <1>2, <1>3, <1>4, <1>5, <1>6, <1>7, <1>8, <1>9, <1>10, <1>11, <1>12,
     <1>13, <1>14, <1>15, <1>16, <1>17, <1>18, <1>19 DEF Next

-----------------------------------------------------------------------------
(* The theorems.                                                           *)

\* The strengthened invariant holds throughout.
THEOREM Inductive == Spec => []IInv
<1>1. Init => IInv
  <2>. SUFFICES ASSUME Init PROVE IInv
    OBVIOUS
  <2>1. Typed
    <3>1. signin \in SignInType /\ logout \in LogoutType
      BY DEF Init, SignInType, LogoutType, FreeSignIn, FreeLogout, Kinds, Users
    <3>2. stack \in Seq(Screens) /\ stack # <<>> /\ stack[1] = "login"
      BY OneScreen DEF Init
    <3>3. /\ owner \in [Tokens -> Users] /\ valid \subseteq {t \in Tokens : owner[t] # None}
          /\ late \subseteq valid
          /\ keychain \in Tokens \cup {None} /\ userId \in Users /\ tabsUser \in Users
          /\ jumps \in 0 .. MaxJumps /\ odd \subseteq Oddities /\ lost \in BOOLEAN
      <4>1. jumps \in 0 .. MaxJumps
        BY SessionAssumption DEF Init
      <4>. QED
        BY <4>1 DEF Init, Users
    <3>. QED
      BY <3>1, <3>2, <3>3
      DEF Typed, TypeOK, RootStays, SignInType, LogoutType, Screens
  <2>2. /\ \A r \in SignIns : signin[r].at = "free" /\ ~signin[r].here
        /\ \A q \in Logouts : logout[q].at = "free" /\ logout[q].token = None
    BY DEF Init, FreeSignIn, FreeLogout
  <2>3. TokensKept
    BY <2>2 DEF Init, TokensKept, InUse, Issued, Unstored, Asked, Abandoned, RevokedExplained
  <2>4. stack \in Shapes /\ ~HasTabs
    BY ShapeFacts DEF Init, Shapes, HasTabs
  <2>. QED
    BY <2>1, <2>2, <2>3, <2>4 DEF Init, IInv, Plain, Alone, SignedOut, NotSigned
<1>2. IInv /\ [Next]_vars => IInv'
  BY TypedStep, TokensStep, PlainStep DEF IInv, TokensKept
<1>. QED
  BY <1>1, <1>2, PTL DEF Spec

\* Every variable keeps its type; the root navigation controller is never empty.
THEOREM TypeCorrect == Spec => []TypeOK
<1>1. IInv => TypeOK
  BY DEF IInv, Typed
<1>. QED
  BY Inductive, <1>1, PTL

\* Token, stored user id and tabs are of one account, unless one of the named
\* oddities happened to this session.
THEOREM AlwaysOneAccount == Spec => []OneAccount
<1>1. IInv => OneAccount
  BY DEF IInv, Plain, SignedOut, SigningIn, Opening, OneAccount, Entering
<1>. QED
  BY Inductive, <1>1, PTL

\* A token the server refuses is only kept while the answer of its logout is on
\* the way or after that answer was lost.
THEOREM RevokedIsExplained == Spec => []RevokedExplained
<1>1. IInv => RevokedExplained
  BY DEF IInv, TokensKept
<1>. QED
  BY Inductive, <1>1, PTL

\* The device never forgets a token that the server still takes.
THEOREM NeverForgetsAValidToken == Spec => ForgetsOnlyRevoked
<1>1. ASSUME IInv, [Next]_vars, keychain # None, keychain' = None
      PROVE  keychain \notin valid
  <2>. USE <1>1 DEF server, device, history
  <2>1. \E q \in Logouts : logout[q].at = "served"
    BY DEF Next, vars, OpenSignUp, BackToLogin, SendSignIn, ServeSignIn, SignInFails,
       SignInAnswered, StoreToken, Open, SendLogout, ServeLogout, LogoutAnswered,
       LogoutFails, ServeLate, OpenPage, LeavePage, PopToRoot, NewTabs, Settled, Jump, Dies,
       DiesSigningIn, DiesSigningOut, Reinstall
  <2>. QED
    BY <2>1 DEF IInv, TokensKept, Asked
<1>2. IInv /\ [Next]_vars => [keychain # None /\ keychain' = None => keychain \notin valid]_vars
  BY <1>1
<1>. QED
  BY Inductive, <1>2, PTL DEF Spec, ForgetsOnlyRevoked
=============================================================================
