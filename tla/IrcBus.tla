------------------------------- MODULE IrcBus -------------------------------
(***************************************************************************)
(* Messages to one agent over the bus, while AgentLifecycle hands it over, *)
(* parks, revives and removes it.  A message goes to a pending wait of the *)
(* agent, into its running turn as an aside, or wakes a turn; a parked     *)
(* agent is revived for it; what a session that is being disposed throws   *)
(* back is kept in the mailbox.                                            *)
(***************************************************************************)
EXTENDS AgentLifecycle, Sequences, SequencesExt

CONSTANTS Msgs,        \* messages, each sent once
          From,        \* their senders
          Anyone,      \* a wait without a from-filter
          MailboxCap   \* MAILBOX_CAP

ASSUME BusAssumption ==
  /\ Msgs \subseteq Callers /\ DOMAIN From = Msgs
  /\ \A m \in Msgs : From[m] # Anyone /\ From[m] # "none"
  /\ Anyone # "none" /\ MailboxCap \in Nat \ {0}

VARIABLES
  receipt,   \* of each message: none (not sent), pending, ok, failed
  waiter,    \* the agent's wait: none, a sender or Anyone
  mailbox,   \* the agent's mailbox
  asides,    \* #pendingIrcAsides of each session
  seen,      \* history: how often each message came into the agent's context
  dropped    \* history: messages the full mailbox dropped

busVars == <<receipt, waiter, mailbox, dropped>>
vars == <<lifeVars, busVars, asides, seen>>

Init ==
  /\ LifeInit
  /\ receipt = [m \in Msgs |-> "none"] /\ waiter = "none" /\ mailbox = <<>>
  /\ asides = [s \in Sessions |-> {}] /\ seen = [m \in Msgs |-> 0] /\ dropped = {}

\* M comes into the agent's context.
Sees(M) == seen' = [m \in Msgs |-> seen[m] + IF m \in M THEN 1 ELSE 0]

-----------------------------------------------------------------------------
\* send

Matches(m) == waiter \in {Anyone, From[m]}

\* Mutant: mail is kept even when the hand-off succeeded.
BufferedAlways(m, failed) == Append(mailbox, m)
\* #enqueue, for a hand-off that failed; the oldest goes when it is full.
Buffered(m, failed) == IF failed THEN Append(mailbox, m) ELSE mailbox
\* Mutant: the cap is looked at before the message is in.
CappedBefore(box) == IF Len(box) > MailboxCap + 1 THEN Tail(box) ELSE box
Capped(box) == IF Len(box) > MailboxCap THEN Tail(box) ELSE box

\* From the look at the waiters on; the session is asked for again.
Deliver(m) ==
  /\ IF Matches(m)
     THEN /\ waiter' = "none" /\ Sees({m}) /\ receipt' = [receipt EXCEPT ![m] = "ok"]
          /\ UNCHANGED <<lifeVars, mailbox, dropped, asides>>
     ELSE IF ref.session = 0
     THEN /\ receipt' = [receipt EXCEPT ![m] = "failed"]
          /\ UNCHANGED <<lifeVars, waiter, mailbox, dropped, asides, seen>>
     ELSE LET failed == sess[ref.session] # "live"
              box == Buffered(m, failed)
          IN /\ receipt' = [receipt EXCEPT ![m] = IF failed THEN "failed" ELSE "ok"]
             /\ mailbox' = Capped(box)
             /\ dropped' = dropped \cup (ToSet(box) \ ToSet(Capped(box)))
             /\ UNCHANGED waiter
             /\ IF failed THEN UNCHANGED <<lifeVars, asides, seen>>
                ELSE IF turn[ref.session] # "off"
                THEN /\ asides' = [asides EXCEPT ![ref.session] = @ \cup {m}]
                     /\ UNCHANGED <<lifeVars, seen>>
                ELSE Wakes(ref.session) /\ Sees({m}) /\ UNCHANGED asides

\* A parked agent is revived first; an unknown one gets nothing.
Send(m) ==
  /\ receipt[m] = "none"
  /\ \/ /\ ref.status = "parked" /\ EnsureLive(m)
        /\ receipt' = [receipt EXCEPT ![m] = "pending"]
        /\ UNCHANGED <<waiter, mailbox, dropped, asides, seen>>
     \/ /\ ref.status = "none" /\ receipt' = [receipt EXCEPT ![m] = "failed"]
        /\ UNCHANGED <<lifeVars, waiter, mailbox, dropped, asides, seen>>
     \/ ref.status \in {"running", "idle"} /\ Deliver(m)

SendGoesOn(m) ==
  /\ receipt[m] = "pending"
  /\ \/ call[m] = "ok" /\ Deliver(m)
     \/ /\ call[m] = "failed" /\ receipt' = [receipt EXCEPT ![m] = "failed"]
        /\ UNCHANGED <<lifeVars, waiter, mailbox, dropped, asides, seen>>

-----------------------------------------------------------------------------
\* The agent's own calls, in a turn of the session it has in the registry.

InTurn(s) == turn[s] = "on" /\ waiter = "none"

\* wait: pending mail first, else a waiter.
Wait(s, from) ==
  /\ InTurn(s)
  /\ LET mail == {i \in DOMAIN mailbox : from \in {Anyone, From[mailbox[i]]}}
     IN IF mail = {} THEN waiter' = from /\ UNCHANGED <<mailbox, seen>>
        ELSE LET i == CHOOSE j \in mail : \A k \in mail : j <= k
             IN /\ mailbox' = RemoveAt(mailbox, i) /\ Sees({mailbox[i]})
                /\ UNCHANGED waiter
  /\ UNCHANGED <<lifeVars, receipt, dropped, asides>>

WaitTimesOut ==
  /\ waiter # "none" /\ waiter' = "none"
  /\ UNCHANGED <<lifeVars, receipt, mailbox, dropped, asides, seen>>

Inbox(s) ==
  /\ InTurn(s) /\ mailbox # <<>>
  /\ mailbox' = <<>> /\ Sees(ToSet(mailbox))
  /\ UNCHANGED <<lifeVars, receipt, waiter, dropped, asides>>

\* The run polls its asides between two batches; not while a wait blocks it.
PollAsides(s) ==
  /\ InTurn(s) /\ sess[s] = "live" /\ asides[s] # {}
  /\ asides' = [asides EXCEPT ![s] = {}] /\ Sees(asides[s])
  /\ UNCHANGED <<lifeVars, busVars>>

\* The turn ends, and takes a wait of its own with it.  What came after its
\* last poll wakes another turn.
EndTurn(s) ==
  /\ LET again == asides[s] # {} /\ sess[s] = "live"
     IN /\ TurnEnds(s, again)
        /\ asides' = IF again THEN [asides EXCEPT ![s] = {}] ELSE asides
        /\ Sees(IF again THEN asides[s] ELSE {})
  /\ waiter' = "none"
  /\ UNCHANGED <<receipt, mailbox, dropped>>

\* The user prompts the agent in its own view.
Chat(s) == s = ref.session /\ Wakes(s) /\ UNCHANGED <<busVars, asides, seen>>
Revive(c) == c \notin Msgs /\ EnsureLive(c) /\ UNCHANGED <<busVars, asides, seen>>

\* Mutant: a session that is disposed forgets the asides it has not polled.
FlushNothing(S) ==
  /\ asides' = [s \in Sessions |-> IF s \in S THEN {} ELSE asides[s]] /\ UNCHANGED seen
\* beginDispose: they go into the transcript.
Flush(S) ==
  /\ asides' = [s \in Sessions |-> IF s \in S THEN {} ELSE asides[s]]
  /\ Sees(UNION {asides[s] : s \in S})

\* What the lifecycle does by itself.  A session whose dispose begins flushes;
\* the abort within it takes the agent's wait away.
Parks == TimerFires \/ ParkEnds
Revives == FactoryReturns \/ Registers \/ Attaches \/ Revived \/ RevivalFailed
Fails == RevivalFails \/ RevivalFailsLate
Kills == Release \/ ReleaseEnds
Lifecycle(A) ==
  /\ A /\ UNCHANGED <<receipt, mailbox, dropped>>
  /\ LET Leaves(from, to) == {s \in Sessions : sess[s] \in from /\ sess'[s] \in to}
     IN /\ Flush(Leaves({"live"}, {"closing", "gone"}))
        /\ waiter' = IF Leaves({"closing"}, {"gone"}) # {} THEN "none" ELSE waiter

-----------------------------------------------------------------------------
Next ==
  \/ Lifecycle(HandOver) \/ Lifecycle(Parks) \/ Lifecycle(Revives)
  \/ Lifecycle(Fails) \/ Lifecycle(Kill) \/ Lifecycle(Kills) \/ Lifecycle(Scan)
  \/ WaitTimesOut
  \/ \E m \in Msgs : Send(m) \/ SendGoesOn(m)
  \/ \E c \in Callers : Revive(c)
  \/ \E s \in Sessions :
       \/ Lifecycle(TurnStarts(s)) \/ EndTurn(s) \/ Chat(s) \/ PollAsides(s) \/ Inbox(s)
       \/ \E from \in {Anyone} \cup {From[m] : m \in Msgs} : Wait(s, from)

Spec == Init /\ [][Next]_vars

\* Timers fire, awaits return, turns end and waits time out.  Nobody has to
\* send, chat, revive, kill or look.
FairSpec ==
  /\ Spec /\ WF_vars(Lifecycle(HandOver)) /\ WF_vars(Lifecycle(Parks))
  /\ WF_vars(Lifecycle(Revives)) /\ WF_vars(Lifecycle(Kills)) /\ WF_vars(WaitTimesOut)
  /\ \A m \in Msgs : WF_vars(SendGoesOn(m))
  /\ \A s \in Sessions : WF_vars(Lifecycle(TurnStarts(s))) /\ WF_vars(EndTurn(s))

-----------------------------------------------------------------------------
TypeOK ==
  /\ LifeTypeOK /\ (severed \/ (timer => adopted))
  /\ receipt \in [Msgs -> {"none", "pending", "ok", "failed"}]
  /\ waiter \in {"none", Anyone} \cup {From[m] : m \in Msgs}
  /\ mailbox \in Seq(Msgs) /\ Len(mailbox) <= MailboxCap
  /\ asides \in [Sessions -> SUBSET Msgs]
  /\ \A s \in Sessions : asides[s] # {} => sess[s] = "live"
  /\ seen \in [Msgs -> Nat] /\ dropped \subseteq Msgs

\* Never two sessions write one session file (executor.ts:2163: "park closed
\* the JSONL writer"; the file itself has no lock): a revival begins only when
\* the last session has been disposed, and everybody shares it, a failing one
\* too.  Not after a kill has removed the id from a session that was still to
\* be attached, or from one it had not disposed (agent-lifecycle.ts:219).
OneWriter ==
  severed \/ Cardinality({s \in Sessions : sess[s] \in {"opening", "live", "closing"}}) <= 1

\* A receipt tells the truth, across turns, parking and removal: a message
\* that was delivered is in the agent's context once, or waits as an aside of
\* a live session; one that failed is nowhere or in the mailbox until the
\* agent reads it.
Copies(m) == seen[m] + Cardinality({s \in Sessions : m \in asides[s]})
Boxed(m) == m \in ToSet(mailbox)
ReceiptsTrue ==
  \A m \in Msgs :
    /\ receipt[m] = "ok" => Copies(m) = 1 /\ ~Boxed(m) /\ m \notin dropped
    /\ receipt[m] = "failed" => Copies(m) + (IF Boxed(m) THEN 1 ELSE 0) <= 1
    /\ receipt[m] \in {"none", "pending"} => Copies(m) = 0 /\ ~Boxed(m)

\* An adopted agent does not sit idle for ever: it is parked, or works, or has
\* been severed.
IdleParks == []<>(severed \/ ~(adopted /\ ref.status = "idle" /\ ref.session # 0))

\* A message sent comes to an end, and messages once over stay over: the agent
\* has it in its context, or its sender is told of the failure, even when it was
\* delivered as an aside in the last moments of a turn or of a session.
UnderWay == {m \in Msgs : receipt[m] \in {"pending", "ok"} /\ seen[m] # 1}
Resolved == []<>(UnderWay = {})
=============================================================================
