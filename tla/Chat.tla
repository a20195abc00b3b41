-------------------------------- MODULE Chat --------------------------------
(***************************************************************************)
(* Chatting with the shop over a table of messages the server keeps and    *)
(* tells observers about.  The chat tab keeps a list of which it shows the *)
(* first row only; the conversation opened from it appends what it is told *)
(* of.  The key of a message the app writes is its second: two messages of *)
(* one second are one row, of which an observer is told once.  All users   *)
(* write to one table, and an observer drops the rows of others.           *)
(***************************************************************************)
EXTENDS Integers, Sequences

CONSTANTS
    ShopKeys,     \* keys of the rows the shop's side writes
    MaxTime,      \* bound: the clock
    MaxSends,     \* bound: messages the user sends
    Absent,       \* no row
    Theirs        \* a row of another user

ASSUME ChatAssumption ==
    /\ MaxTime \in Nat /\ MaxSends \in Nat
    /\ ShopKeys \cap (0 .. MaxTime) = {}
    /\ {Absent, Theirs} \cap (0 .. MaxTime) = {}
    /\ Absent # Theirs

VARIABLES
    clock,        \* the seconds of the app's clock
    sends,        \* messages the user sent
    rows,         \* the server's table: the date of the row, if it is the user's
    due,          \* rows the observer of the chat tab has still to be told of
    tab,          \* messageData of the chat tab
    screen,       \* what is in front: "tab" or "talk"
    talk,         \* messageData of the conversation, empty when it is not open
    coming,       \* rows its observer has still to be told of
    \* History: rows that were another user's when the observer was told of them.
    tabDropped,
    talkDropped

told == <<due, tab, screen, talk, coming, tabDropped, talkDropped>>
vars == <<clock, sends, rows, told>>

Keys == ShopKeys \cup (0 .. MaxTime)
Present(k) == rows[k] # Absent
Mine(k) == rows[k] \notin {Absent, Theirs}
Message == [key : Keys, at : 0 .. MaxTime]

TypeOK ==
    /\ clock \in 0 .. MaxTime
    /\ sends \in 0 .. MaxSends
    /\ rows \in [Keys -> (0 .. MaxTime) \cup {Absent, Theirs}]
    /\ due \subseteq {k \in Keys : Present(k)}
    /\ tab \in Seq(Message)
    /\ screen \in {"tab", "talk"}
    /\ talk \in Seq(Message)
    /\ coming \subseteq {k \in Keys : Present(k)}
    /\ tabDropped \subseteq {k \in Keys : Present(k)}
    /\ talkDropped \subseteq {k \in Keys : Present(k)}

Init ==
    /\ clock = 0 /\ sends = 0
    /\ rows = [k \in Keys |-> Absent]
    /\ due = {} /\ tab = <<>>
    /\ screen = "tab" /\ talk = <<>> /\ coming = {}
    /\ tabDropped = {} /\ talkDropped = {}

Second ==
    /\ clock < MaxTime
    /\ clock' = clock + 1
    /\ UNCHANGED <<sends, rows, told>>

-----------------------------------------------------------------------------
(* Writing.                                                                *)

NewFor_Always(k) == {k}

\* A row that is there already is changed, which childAdded says nothing of,
\* whoever wrote it.
NewFor(k) == IF Present(k) THEN {} ELSE {k}

Write(k, row) ==
    /\ rows' = [rows EXCEPT ![k] = row]
    /\ due' = due \cup NewFor(k)
    /\ coming' = IF screen = "tab" THEN {} ELSE coming \cup NewFor(k)
    /\ UNCHANGED <<tab, screen, talk, tabDropped, talkDropped>>

\* sendMessageBtn: the key is of the second of one Date(), createdAt of that of
\* a second one, when the next second may have begun.
Send ==
    /\ screen = "talk"
    /\ sends < MaxSends
    /\ sends' = sends + 1
    /\ clock' \in {clock, clock + 1} /\ clock' <= MaxTime
    /\ Write(clock, clock')

\* Another user's app sends in one of its seconds, which need not be ours.
OtherSends(k) ==
    /\ rows[k] # Theirs
    /\ Write(k, Theirs)
    /\ UNCHANGED <<clock, sends>>

\* The shop's side writes a row once, with a date of its own clock.
ShopWrites(k, t) ==
    /\ ~Present(k)
    /\ Write(k, t)
    /\ UNCHANGED <<clock, sends>>

-----------------------------------------------------------------------------
(* Being told.                                                             *)

MessageOf(k) == [key |-> k, at |-> rows[k]]

InsertLatest_OldestFirst(list, m) ==
    IF list # <<>> /\ m.at < list[1].at THEN <<m>> \o list ELSE Append(list, m)

\* fetchMessage: a later message goes first, any other goes last.
InsertLatest(list, m) ==
    IF list # <<>> /\ m.at > list[1].at THEN <<m>> \o list ELSE Append(list, m)

TabTold(k) ==
    /\ k \in due
    /\ due' = due \ {k}
    /\ \/ /\ Mine(k)
          /\ tab' = InsertLatest(tab, MessageOf(k))
          /\ UNCHANGED tabDropped
       \/ /\ ~Mine(k)
          /\ tabDropped' = tabDropped \cup {k}
          /\ UNCHANGED tab
    /\ UNCHANGED <<clock, sends, rows, screen, talk, coming, talkDropped>>

OpenTalk_OnlyNew ==
    /\ screen = "tab" /\ tab # <<>>
    /\ screen' = "talk"
    /\ coming' = due
    /\ UNCHANGED <<clock, sends, rows, due, tab, talk, tabDropped, talkDropped>>

\* A tap on the row, which is there once the tab was told of one, or on the
\* button of a product's page.  A new observer is told of every row there is.
OpenTalk ==
    /\ screen = "tab"
    /\ screen' = "talk"
    /\ coming' = {k \in Keys : Present(k)}
    /\ UNCHANGED <<clock, sends, rows, due, tab, talk, tabDropped, talkDropped>>

\* observeMessages
TalkTold(k) ==
    /\ screen = "talk"
    /\ k \in coming
    /\ coming' = coming \ {k}
    /\ \/ /\ Mine(k)
          /\ talk' = Append(talk, MessageOf(k))
          /\ UNCHANGED talkDropped
       \/ /\ ~Mine(k)
          /\ talkDropped' = talkDropped \cup {k}
          /\ UNCHANGED talk
    /\ UNCHANGED <<clock, sends, rows, due, tab, screen, tabDropped>>

\* The screen is released; its observer finds nobody to tell.
CloseTalk ==
    /\ screen = "talk"
    /\ screen' = "tab"
    /\ talk' = <<>>
    /\ coming' = {} /\ talkDropped' = {}
    /\ UNCHANGED <<clock, sends, rows, due, tab, tabDropped>>

-----------------------------------------------------------------------------
Next ==
    \/ Second
    \/ Send
    \/ \E k \in 0 .. MaxTime : OtherSends(k)
    \/ \E k \in ShopKeys, t \in 0 .. MaxTime : ShopWrites(k, t)
    \/ \E k \in Keys : TabTold(k)
    \/ OpenTalk
    \/ \E k \in Keys : TalkTold(k)
    \/ CloseTalk

Spec == Init /\ [][Next]_vars

\* The server tells its observers.
Fairness == \A k \in Keys : WF_vars(TabTold(k)) /\ WF_vars(TalkTold(k))

FairSpec == Spec /\ Fairness

-----------------------------------------------------------------------------
(* What chatting promises.                                                 *)

KeysOf(list) == {list[i].key : i \in 1 .. Len(list)}
NoDoubles(list) == \A i, j \in 1 .. Len(list) : list[i].key = list[j].key => i = j

\* How much later than the tab knows a row may be: the shop writes a row once, a
\* message of the app may replace one of the same key and be dated a second later.
Slack(k) == IF k \in ShopKeys THEN 0 ELSE 1

\* The row the chat tab shows is as late as any it was told of, although the
\* rest of its list is in no order and rows come in any order.  What is in the
\* table by now may be later, since nobody is told of a row that is written
\* again, but by no more than a second: that is how far the date of a message
\* may be from its key.
TabShowsLatest ==
    /\ \A i \in 1 .. Len(tab) : tab[i].at <= tab[1].at
    /\ \A k \in Keys : Mine(k) /\ k \notin due \cup tabDropped =>
         tab # <<>> /\ rows[k] <= tab[1].at + Slack(k)

\* Neither list has two entries for one row, also when the row was written
\* twice, and the entries are exactly the rows the observer was told of, but
\* for those that were another user's then.
ListedOnce ==
    /\ NoDoubles(tab)
    /\ KeysOf(tab) = {k \in Keys : Present(k)} \ (due \cup tabDropped)
    /\ screen = "talk" =>
         /\ NoDoubles(talk)
         /\ KeysOf(talk) = {k \in Keys : Present(k)} \ (coming \cup talkDropped)

\* A row of the user's gets into the conversation that stays open, unless
\* another user's message had the same second and was the one the conversation
\* was told of: then the user's own message never appears there.  What the shop
\* writes always does.
TalkGetsAll ==
    \A k \in Keys :
        Mine(k) /\ screen = "talk"
          ~> screen = "tab" \/ k \in KeysOf(talk) \cup (talkDropped \ ShopKeys)
=============================================================================
