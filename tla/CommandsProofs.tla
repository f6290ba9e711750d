---------------------------- MODULE CommandsProofs ----------------------------
(***************************************************************************)
(* Theorems about Commands, for any number of commands of any kinds, with  *)
(* or without the detector.                                                *)
(***************************************************************************)
EXTENDS CommandsInv, SequenceTheorems, TLAPS

LEMMA SequencesOfCommands ==
    /\ << >> \in Seq(Cmds)
    /\ \A s \in Seq(Cmds) : \A i \in DOMAIN s :
          s[i] \in Nat /\ s[i] # None /\ i \in Nat /\ i <= Len(s)
  <1>1. \A c \in Cmds : c \in Nat /\ c # None
    BY DEF Cmds, None
  <1>2. << >> \in Seq(Cmds)
    OBVIOUS
  <1>3. \A s \in Seq(Cmds) : \A i \in DOMAIN s :
          s[i] \in Nat /\ s[i] # None /\ i \in Nat /\ i <= Len(s)
    BY <1>1
  <1>4. QED
    BY <1>2, <1>3

(* What happens to the sequences when a command is taken.                  *)
LEMMA ReceivedShape ==
    ASSUME TypeOK, Received
    PROVE  /\ NextCmd \in Cmds /\ NextCmd = inbox[1] /\ 1 \in DOMAIN inbox
           /\ inbox' \in Seq(Cmds) /\ lastId' = IdOf(NextCmd) /\ handled' \in Seq(Cmds)
           /\ \A i \in DOMAIN inbox' : i + 1 \in DOMAIN inbox /\ inbox'[i] = inbox[i + 1]
           /\ DOMAIN handled' = DOMAIN handled \cup {Len(handled) + 1}
           /\ \A i \in DOMAIN handled : handled'[i] = handled[i] /\ i < Len(handled) + 1
           /\ handled'[Len(handled) + 1] = NextCmd
           /\ handler.pc = "idle" /\ handler.cmd = None
  <1>1. inbox \in Seq(Cmds) /\ inbox # << >> /\ handled \in Seq(Cmds)
    BY DEF TypeOK, Received
  <1>2. /\ NextCmd \in Cmds /\ NextCmd = inbox[1] /\ 1 \in DOMAIN inbox
        /\ inbox' \in Seq(Cmds)
        /\ \A i \in DOMAIN inbox' : i + 1 \in DOMAIN inbox /\ inbox'[i] = inbox[i + 1]
    BY <1>1 DEF NextCmd, Received
  <1>3. /\ handled' \in Seq(Cmds)
        /\ DOMAIN handled' = DOMAIN handled \cup {Len(handled) + 1}
        /\ \A i \in DOMAIN handled : handled'[i] = handled[i] /\ i < Len(handled) + 1
        /\ handled'[Len(handled) + 1] = NextCmd
    BY <1>1, <1>2 DEF Received
  <1>4. QED
    BY <1>2, <1>3 DEF Received, TypeOK

(* The id that is kept is that of the command taken, or none. *)
LEMMA IdKept ==
    ASSUME NEW c \in Cmds
    PROVE  IdOf(c) \in {c, None}
  BY DEF IdOf

(* Taking the first frame keeps the order: it is newer than everything     *)
(* dispatched before and older than every frame behind it.                 *)
LEMMA ReceivedOrder ==
    ASSUME IInv, Received, UNCHANGED issued
    PROVE  /\ InboxInOrder' /\ LastIdIsLast' /\ HandledOnceInOrder'
           /\ \A s \in Statuses : <<NextCmd, s>> \notin reports
  <1>t. TypeOK /\ InboxInOrder /\ LastIdIsLast /\ HandledOnceInOrder /\ ReportedWasHandled
    BY DEF IInv
  <1>n. /\ inbox \in Seq(Cmds) /\ handled \in Seq(Cmds) /\ issued \in Nat
        /\ \A i \in DOMAIN inbox : inbox[i] \in Nat
        /\ \A i \in DOMAIN handled : handled[i] \in Nat
    BY <1>t, CommandAssumption DEF TypeOK, Cmds
  <1>c. \A c \in Cmds : c \in Nat
    BY DEF Cmds
  <1>m. \A i \in DOMAIN handled' : handled'[i] \in Nat
    <2>1. handled' \in Seq(Cmds)
      BY <1>t, ReceivedShape
    <2>2. QED
      BY <2>1, <1>c
  <1>1. \A i \in DOMAIN handled : handled[i] < NextCmd
    BY <1>t, ReceivedShape DEF InboxInOrder
  <1>2. \A i \in DOMAIN inbox' : NextCmd < inbox'[i] /\ inbox'[i] <= issued
    <2>1. TAKE i \in DOMAIN inbox'
    <2>2. i + 1 \in DOMAIN inbox /\ inbox'[i] = inbox[i + 1] /\ 1 < i + 1 /\ 1 \in DOMAIN inbox
      BY <1>t, <1>n, ReceivedShape
    <2>3. QED
      BY <2>2, <1>t, ReceivedShape DEF InboxInOrder, Increasing
  <1>3. Increasing(inbox')
    <2>1. SUFFICES ASSUME NEW i \in DOMAIN inbox', NEW j \in DOMAIN inbox', i < j
                   PROVE  inbox'[i] < inbox'[j]
      BY DEF Increasing
    <2>2. /\ i + 1 \in DOMAIN inbox /\ inbox'[i] = inbox[i + 1]
          /\ j + 1 \in DOMAIN inbox /\ inbox'[j] = inbox[j + 1]
      BY <1>t, ReceivedShape
    <2>3. i + 1 < j + 1
      BY <2>1, <2>2, <1>t, <1>n, ReceivedShape
    <2>4. QED
      BY <2>2, <2>3, <1>t DEF InboxInOrder, Increasing
  <1>4. \A i \in DOMAIN handled' : handled'[i] <= NextCmd
    BY <1>1, <1>n, <1>t, ReceivedShape DEF Cmds
  <1>5. NextCmd <= issued /\ NextCmd \in Nat
    BY <1>t, <1>n, ReceivedShape DEF InboxInOrder
  <1>6. InboxInOrder'
    <2>1. \A i \in DOMAIN handled', j \in DOMAIN inbox' : handled'[i] < inbox'[j]
      <3>1. \A i \in DOMAIN handled' : handled'[i] \in Nat
        BY <1>m
      <3>2. \A j \in DOMAIN inbox' : inbox'[j] \in Nat
        BY <1>t, ReceivedShape, CommandAssumption DEF Cmds
      <3>3. QED
        BY <1>2, <1>4, <1>5, <3>1, <3>2
    <2>2. QED
      BY <1>2, <1>3, <2>1 DEF InboxInOrder
  <1>7. LastIdIsLast'
    <2>1. \A i \in DOMAIN handled' : handled'[i] <= issued
      <3>1. \A i \in DOMAIN handled' : handled'[i] \in Nat
        BY <1>m
      <3>2. QED
        BY <1>4, <1>5, <1>n, <3>1
    <2>2. QED
      BY <1>4, <2>1, <1>t, ReceivedShape, IdKept DEF LastIdIsLast
  <1>8. HandledOnceInOrder'
    <2>1. SUFFICES ASSUME NEW i \in DOMAIN handled', NEW j \in DOMAIN handled', i < j
                   PROVE  handled'[i] < handled'[j]
      BY DEF HandledOnceInOrder, Increasing
    <2>2. CASE j \in DOMAIN handled
      <3>1. i \in DOMAIN handled
        BY <2>1, <2>2, <1>n, <1>t, ReceivedShape
      <3>2. QED
        BY <2>1, <2>2, <3>1, <1>t, ReceivedShape DEF HandledOnceInOrder, Increasing
    <2>3. CASE j = Len(handled) + 1
      <3>1. i \in DOMAIN handled
        BY <2>1, <2>3, <1>n, <1>t, ReceivedShape
      <3>2. QED
        BY <2>3, <3>1, <1>1, <1>t, ReceivedShape
    <2>4. QED
      BY <2>2, <2>3, <1>t, ReceivedShape
  <1>9. \A s \in Statuses : <<NextCmd, s>> \notin reports
    <2>1. SUFFICES ASSUME NEW s \in Statuses, <<NextCmd, s>> \in reports PROVE FALSE
      OBVIOUS
    <2>2. PICK i \in DOMAIN handled : handled[i] = NextCmd
      BY <2>1, <1>t, ReceivedShape DEF ReportedWasHandled
    <2>3. QED
      BY <2>2, <1>1, <1>n
  <1>10. QED
    BY <1>6, <1>7, <1>8, <1>9

(* What every way of taking a command preserves.                           *)
LEMMA ReceivedKeeps ==
    ASSUME IInv, Received, UNCHANGED <<issued, reports, ran, unsaid, lost>>,
           handler' \in {handler} \cup {[pc |-> "capture", cmd |-> NextCmd, status |-> "FAILED"],
                                        Reporting(NextCmd, "FAILED")},
           out \subseteq out', out' \subseteq Cmds, UNCHANGED <<link, mqtt, passed>>,
           \/ handler'.cmd = NextCmd \/ NextCmd \in out'
           \/ Kind[NextCmd] \in {"noid", "garbled"}
    PROVE  IInv'
  <1>t. /\ TypeOK /\ HandlerIsLast /\ ReportedWasHandled
        /\ OneVerdict /\ Accounted /\ PassedIsRun
    BY DEF IInv
  <1>1. TypeOK'
    <2>1. /\ handler' \in [pc : {"idle", "capture", "report", "vision"},
                           cmd : Cmds \cup {None}, status : Statuses]
          /\ handler'.pc = "idle" <=> handler'.cmd = None
          /\ handler'.pc = "vision" => handler'.status = "SUCCESS"
      BY <1>t, ReceivedShape DEF TypeOK, Reporting, Statuses, Cmds, None
    <2>2. /\ issued' \in 0..NumCmds /\ link' \in {"down", "up", "half", "closed"}
          /\ inbox' \in Seq(Cmds) /\ lastId' \in Cmds \cup {None}
          /\ mqtt' \in BOOLEAN /\ out' \subseteq Cmds /\ passed' \subseteq out'
          /\ handled' \in Seq(Cmds) /\ reports' \subseteq Cmds \X Statuses
          /\ ran' \subseteq Cmds /\ unsaid' \subseteq Cmds /\ lost' \subseteq Cmds
      BY <1>t, ReceivedShape, IdKept DEF TypeOK
    <2>3. QED
      BY <2>1, <2>2 DEF TypeOK
  <1>2. InboxInOrder' /\ LastIdIsLast' /\ HandledOnceInOrder'
    BY ReceivedOrder
  <1>3. HandlerIsLast'
    <2>1. handler.pc = "idle" /\ handler.cmd = None
      BY <1>t, ReceivedShape
    <2>2. \E i \in DOMAIN handled' : handled'[i] = NextCmd
      BY <1>t, ReceivedShape
    <2>3. QED
      BY <2>1, <2>2, ReceivedOrder DEF HandlerIsLast, Reporting
  <1>4. ReportedWasHandled'
    <2>1. SUFFICES ASSUME NEW c \in Cmds, NEW s \in Statuses, <<c, s>> \in reports
                   PROVE  \E i \in DOMAIN handled' : handled'[i] = c
      BY DEF ReportedWasHandled
    <2>2. PICK i \in DOMAIN handled : handled[i] = c
      BY <2>1, <1>t DEF ReportedWasHandled
    <2>3. QED
      BY <2>2, <1>t, ReceivedShape
  <1>5. OneVerdict' /\ PassedIsRun'
    BY <1>t DEF OneVerdict, PassedIsRun
  <1>6. Accounted'
    <2>1. SUFFICES ASSUME NEW i \in DOMAIN handled'
                   PROVE  \/ handled'[i] \in out' \cup ran \cup unsaid \cup lost \cup {handler'.cmd}
                          \/ Kind[handled'[i]] \in {"noid", "garbled"}
                          \/ \E s \in Statuses : <<handled'[i], s>> \in reports
      BY DEF Accounted
    <2>2. CASE i \in DOMAIN handled
      <3>1. handled'[i] = handled[i] /\ handler.cmd = None
        BY <2>2, <1>t, ReceivedShape
      <3>2. handled[i] \in Cmds /\ handled[i] # None
        <4>1. handled \in Seq(Cmds)
          BY <1>t DEF TypeOK
        <4>2. handled[i] \in Cmds
          BY <2>2, <4>1
        <4>3. QED
          BY <4>2 DEF Cmds, None
      <3>3. QED
        BY <2>2, <3>1, <3>2, <1>t DEF Accounted
    <2>3. CASE i = Len(handled) + 1
      BY <2>3, <1>t, ReceivedShape
    <2>4. QED
      BY <2>2, <2>3, <1>t, ReceivedShape
  <1>7. QED
    BY <1>1, <1>2, <1>3, <1>4, <1>5, <1>6 DEF IInv

-------------------------------------------------------------------------------
LEMMA InitInv == Init => IInv
  <1>1. SUFFICES ASSUME Init PROVE IInv
    OBVIOUS
  <1>2. /\ inbox = << >> /\ handled = << >> /\ reports = {} /\ handler = Idle
        /\ out = {} /\ passed = {} /\ ran = {} /\ unsaid = {} /\ lost = {} /\ issued = 0
        /\ lastId = None /\ link = "down" /\ mqtt = FALSE
    BY <1>1 DEF Init
  <1>3. Idle \in [pc : {"idle", "capture", "report", "vision"},
                  cmd : Cmds \cup {None}, status : Statuses]
    BY DEF Idle, Statuses
  <1>4. Idle.pc = "idle" /\ Idle.cmd = None
    BY DEF Idle
  <1>5. TypeOK
    <2>1. /\ issued \in 0..NumCmds /\ inbox \in Seq(Cmds) /\ handled \in Seq(Cmds)
          /\ lastId \in Cmds \cup {None} /\ link \in {"down", "up", "half", "closed"}
      <3>1. NumCmds \in Nat
        BY CommandAssumption
      <3>2. QED
        BY <1>2, <3>1, SequencesOfCommands
    <2>m. mqtt \in BOOLEAN
      BY <1>2, Zenon
    <2>2. /\ out \subseteq Cmds /\ passed \subseteq out /\ reports \subseteq Cmds \X Statuses
          /\ ran \subseteq Cmds /\ unsaid \subseteq Cmds /\ lost \subseteq Cmds
      BY <1>2
    <2>3. handler.pc = "idle" /\ handler.cmd = None
      BY <1>2, <1>4
    <2>4. QED
      BY <1>2, <1>3, <2>1, <2>m, <2>2, <2>3 DEF TypeOK
  <1>6. InboxInOrder /\ LastIdIsLast /\ HandledOnceInOrder
    BY <1>2 DEF InboxInOrder, LastIdIsLast, HandledOnceInOrder, Increasing
  <1>7. HandlerIsLast /\ ReportedWasHandled /\ PassedIsRun /\ OneVerdict /\ Accounted
    BY <1>2, <1>4 DEF HandlerIsLast, ReportedWasHandled, PassedIsRun, OneVerdict, Accounted
  <1>8. QED
    BY <1>5, <1>6, <1>7 DEF IInv

(* A step that leaves the sequences and the handler alone, takes no verdict *)
(* back and keeps every published command in sight.                         *)
LEMMA OthersKeep ==
    ASSUME IInv, TypeOK', InboxInOrder', PassedIsRun',
           UNCHANGED <<gatewayVars, handled, reports, unsaid, lost>>, issued <= issued',
           out \cup ran \subseteq out' \cup ran'
    PROVE  IInv'
  <1>t. /\ TypeOK /\ LastIdIsLast /\ HandlerIsLast /\ ReportedWasHandled
        /\ HandledOnceInOrder /\ OneVerdict /\ Accounted
    BY DEF IInv
  <1>1. LastIdIsLast'
    <2>1. /\ issued \in Nat /\ issued' \in Nat
          /\ \A i \in DOMAIN handled : handled[i] \in Nat
      BY <1>t, CommandAssumption DEF TypeOK, Cmds
    <2>2. QED
      BY <2>1, <1>t DEF LastIdIsLast, gatewayVars
  <1>2. HandlerIsLast' /\ ReportedWasHandled' /\ HandledOnceInOrder' /\ OneVerdict'
    BY <1>t DEF HandlerIsLast, ReportedWasHandled, HandledOnceInOrder, OneVerdict, gatewayVars
  <1>3. Accounted'
    BY <1>t DEF Accounted, gatewayVars
  <1>4. QED
    BY <1>1, <1>2, <1>3 DEF IInv

(* A step of the handler that gives no verdict, drops none and does not     *)
(* lose the command it is at.                                               *)
LEMMA HandlerKeeps ==
    ASSUME IInv, TypeOK', UNCHANGED <<issued, inbox, lastId, handled, reports, brokerVars, ran>>,
           handler'.pc \in {"capture", "report"} => handler.pc \in {"capture", "report"},
           handler'.cmd \in {None, handler.cmd}, unsaid \subseteq unsaid', lost' = lost,
           handler'.cmd = handler.cmd \/ handler.cmd \in unsaid'
             \/ \E s \in Statuses : <<handler.cmd, s>> \in reports,
           handler'.pc # "vision"
    PROVE  IInv'
  <1>t. /\ TypeOK /\ InboxInOrder /\ LastIdIsLast /\ HandlerIsLast /\ ReportedWasHandled
        /\ PassedIsRun /\ HandledOnceInOrder /\ OneVerdict /\ Accounted
    BY DEF IInv
  <1>1. InboxInOrder' /\ LastIdIsLast' /\ ReportedWasHandled'
    BY <1>t DEF InboxInOrder, LastIdIsLast, ReportedWasHandled
  <1>2. PassedIsRun' /\ HandledOnceInOrder' /\ OneVerdict'
    BY <1>t DEF PassedIsRun, HandledOnceInOrder, OneVerdict, brokerVars
  <1>3. HandlerIsLast'
    <2>1. handler'.cmd # None => handler'.cmd = handler.cmd /\ handler.cmd # None
      OBVIOUS
    <2>2. handler'.pc \in {"capture", "report"} =>
            handler'.cmd = handler.cmd /\ handler.pc \in {"capture", "report"}
      BY <2>1 DEF TypeOK
    <2>3. QED
      BY <2>1, <2>2, <1>t DEF HandlerIsLast
  <1>4. Accounted'
    <2>1. SUFFICES ASSUME NEW i \in DOMAIN handled
                   PROVE  \/ handled[i] \in out \cup ran \cup unsaid' \cup lost' \cup {handler'.cmd}
                          \/ Kind[handled[i]] \in {"noid", "garbled"}
                          \/ \E s \in Statuses : <<handled[i], s>> \in reports
      BY DEF Accounted, brokerVars
    <2>2. CASE handled[i] = handler.cmd
      BY <2>2
    <2>3. CASE handled[i] # handler.cmd
      BY <2>3, <1>t DEF Accounted
    <2>4. QED
      BY <2>2, <2>3
  <1>5. QED
    BY <1>1, <1>2, <1>3, <1>4 DEF IInv

(* A replay is increasing and newer than the last id, hence newer than      *)
(* whatever was dispatched.                                                 *)
LEMMA ReplayShape ==
    ASSUME NEW last \in Cmds \cup {None}, issued \in 0..NumCmds, NEW s \in Replays(last)
    PROVE  /\ s \in Seq(Cmds) /\ Increasing(s)
           /\ \A i \in DOMAIN s : last # None /\ last < s[i] /\ s[i] <= issued
  <1>1. CASE last = None
    BY <1>1 DEF Replays, Increasing
  <1>2. CASE last # None
    <2>1. PICK n \in 0..NumCmds : s \in [1..n -> (last + 1)..issued]
      BY <1>2 DEF Replays, SeqOf
    <2>2. NumCmds \in Nat /\ n \in Nat /\ last \in Nat /\ last >= 1 /\ issued \in Nat
      BY <1>2, <2>1, CommandAssumption DEF Cmds
    <2>3. \A x \in (last + 1)..issued : x \in Cmds /\ last < x /\ x <= issued
      BY <2>2 DEF Cmds
    <2>4. s \in Seq(Cmds) /\ DOMAIN s = 1..n
      BY <2>1, <2>2, <2>3
    <2>5. \A i \in DOMAIN s : last < s[i] /\ s[i] <= issued
      BY <2>1, <2>3, <2>4
    <2>6. Increasing(s)
      BY <1>2 DEF Replays
    <2>7. QED
      BY <1>2, <2>4, <2>5, <2>6
  <1>3. QED
    BY <1>1, <1>2

LEMMA ConnectKeeps ==
    ASSUME IInv, Connect PROVE IInv'
  <1>t. TypeOK /\ InboxInOrder /\ LastIdIsLast /\ PassedIsRun
    BY DEF IInv
  <1>1. /\ inbox' \in Seq(Cmds) /\ Increasing(inbox')
        /\ \A i \in DOMAIN inbox' : lastId # None /\ lastId < inbox'[i] /\ inbox'[i] <= issued
    BY <1>t, ReplayShape DEF Connect, TypeOK
  <1>2. \A i \in DOMAIN handled, j \in DOMAIN inbox' : handled[i] < inbox'[j]
    <2>1. SUFFICES ASSUME NEW i \in DOMAIN handled, NEW j \in DOMAIN inbox'
                   PROVE  handled[i] < inbox'[j]
      OBVIOUS
    <2>2. handled[i] <= lastId /\ lastId < inbox'[j]
      BY <1>1, <1>t DEF LastIdIsLast
    <2>3. handled[i] \in Cmds /\ lastId \in Cmds /\ inbox'[j] \in Cmds
      BY <1>1, <1>t DEF TypeOK
    <2>4. QED
      BY <2>2, <2>3 DEF Cmds
  <1>3. InboxInOrder'
    BY <1>1, <1>2 DEF InboxInOrder, Connect, historyVars
  <1>4. TypeOK'
    <2>1. UNCHANGED <<issued, lastId, handler, mqtt, out, passed, handled, reports, ran, unsaid, lost>>
      BY DEF Connect, gatewayVars, brokerVars, historyVars
    <2>2. link' = "up"
      BY DEF Connect
    <2>3. QED
      BY <1>1, <1>t, <2>1, <2>2 DEF TypeOK
  <1>5. UNCHANGED <<issued, gatewayVars, handled, reports, unsaid, lost, out, ran, passed>>
    BY DEF Connect, brokerVars, historyVars
  <1>6. PassedIsRun' /\ issued <= issued'
    BY <1>5, <1>t DEF PassedIsRun, TypeOK
  <1>7. QED
    BY <1>3, <1>4, <1>5, <1>6, OthersKeep

LEMMA IssueKeeps ==
    ASSUME IInv, Issue PROVE IInv'
  <1>t. TypeOK /\ InboxInOrder /\ LastIdIsLast /\ PassedIsRun
    BY DEF IInv
  <1>n. /\ inbox \in Seq(Cmds) /\ handled \in Seq(Cmds) /\ NumCmds \in Nat
        /\ issued \in Nat /\ issued' = issued + 1 /\ issued' \in 0..NumCmds
        /\ issued' \in Cmds
    BY <1>t, CommandAssumption DEF TypeOK, Issue, Cmds
  <1>1. /\ inbox' \in Seq(Cmds)
        /\ \A i \in DOMAIN inbox' :
              \/ i \in DOMAIN inbox /\ inbox'[i] = inbox[i]
              \/ i = Len(inbox) + 1 /\ inbox'[i] = issued'
    BY <1>n DEF Issue
  <1>2. Increasing(inbox')
    <2>1. SUFFICES ASSUME NEW i \in DOMAIN inbox', NEW j \in DOMAIN inbox', i < j
                   PROVE  inbox'[i] < inbox'[j]
      BY DEF Increasing
    <2>2. i \in 1..Len(inbox') /\ j \in 1..Len(inbox')
      BY <1>1
    <2>3. \A k \in DOMAIN inbox : k <= Len(inbox) /\ inbox[k] \in Nat /\ inbox[k] <= issued
      BY <1>n, SequencesOfCommands, <1>t DEF InboxInOrder
    <2>4. CASE j \in DOMAIN inbox /\ inbox'[j] = inbox[j]
      <3>1. i \in DOMAIN inbox /\ inbox'[i] = inbox[i]
        BY <2>1, <2>2, <2>3, <2>4, <1>1, <1>n
      <3>2. QED
        BY <2>1, <2>4, <3>1, <1>t DEF InboxInOrder, Increasing
    <2>5. CASE j = Len(inbox) + 1 /\ inbox'[j] = issued'
      <3>1. i \in DOMAIN inbox /\ inbox'[i] = inbox[i]
        BY <2>1, <2>2, <2>5, <1>1, <1>n
      <3>2. QED
        BY <2>3, <2>5, <3>1, <1>n
    <2>6. QED
      BY <2>4, <2>5, <1>1
  <1>3. \A i \in DOMAIN inbox' : inbox'[i] <= issued'
    <2>1. \A k \in DOMAIN inbox : inbox[k] \in Nat /\ inbox[k] <= issued
      BY <1>n, SequencesOfCommands, <1>t DEF InboxInOrder
    <2>2. QED
      BY <1>1, <1>n, <2>1
  <1>4. \A i \in DOMAIN handled, j \in DOMAIN inbox' : handled[i] < inbox'[j]
    <2>1. \A i \in DOMAIN handled : handled[i] \in Nat /\ handled[i] <= issued
      BY <1>n, SequencesOfCommands, <1>t DEF LastIdIsLast
    <2>2. QED
      BY <1>1, <1>n, <1>t, <2>1 DEF InboxInOrder
  <1>5. UNCHANGED <<link, lastId, handler, mqtt, out, passed, handled, reports, ran, unsaid, lost>>
    BY DEF Issue, gatewayVars, brokerVars, historyVars
  <1>6. InboxInOrder'
    BY <1>2, <1>3, <1>4, <1>5 DEF InboxInOrder
  <1>7. TypeOK'
    BY <1>1, <1>n, <1>t, <1>5 DEF TypeOK
  <1>8. PassedIsRun' /\ issued <= issued'
    BY <1>5, <1>n, <1>t DEF PassedIsRun
  <1>9. QED
    BY <1>5, <1>6, <1>7, <1>8, OthersKeep DEF gatewayVars

(* A connection that ends leaves the frames as they are, or drops them all. *)
LEMMA LinkKeeps ==
    ASSUME IInv, link' \in {"down", "half", "closed"}, inbox' \in {inbox, << >>},
           UNCHANGED <<issued, gatewayVars, brokerVars, historyVars>>
    PROVE  IInv'
  <1>t. TypeOK /\ InboxInOrder /\ PassedIsRun
    BY DEF IInv
  <1>1. UNCHANGED <<issued, lastId, handler, mqtt, out, passed, handled, reports, ran, unsaid, lost>>
    BY DEF gatewayVars, brokerVars, historyVars
  <1>2. inbox' \in Seq(Cmds)
    BY <1>t, SequencesOfCommands DEF TypeOK
  <1>3. TypeOK'
    BY <1>1, <1>2, <1>t DEF TypeOK
  <1>4. InboxInOrder'
    <2>1. CASE inbox' = inbox
      BY <2>1, <1>1, <1>t DEF InboxInOrder
    <2>2. CASE inbox' = << >>
      BY <2>2, <1>1, <1>t DEF InboxInOrder, Increasing
    <2>3. QED
      BY <2>1, <2>2
  <1>5. PassedIsRun' /\ issued <= issued'
    BY <1>1, <1>t DEF PassedIsRun, TypeOK
  <1>6. QED
    BY <1>1, <1>3, <1>4, <1>5, OthersKeep

(* The broker and the ESP32: an acknowledged command leaves the queue only  *)
(* after it has been received.                                              *)
LEMMA BrokerKeeps ==
    ASSUME IInv, Broker PROVE IInv'
  <1>t. TypeOK /\ InboxInOrder /\ PassedIsRun
    BY DEF IInv
  <1>1. UNCHANGED <<issued, link, inbox, lastId, handler, handled, reports, unsaid, lost>>
    BY DEF Broker, MqttConnects, MqttDisconnects, EspReceives, Puback, gatewayVars, historyVars
  <1>2. /\ mqtt' \in BOOLEAN /\ out' \subseteq Cmds /\ passed' \subseteq out'
        /\ ran' \subseteq Cmds /\ passed' \subseteq ran'
        /\ out \cup ran \subseteq out' \cup ran'
    <2>1. CASE MqttConnects \/ MqttDisconnects
      BY <2>1, <1>t DEF MqttConnects, MqttDisconnects, TypeOK, PassedIsRun, historyVars
    <2>2. ASSUME NEW c \in Cmds, EspReceives(c)
          PROVE  /\ mqtt' \in BOOLEAN /\ out' \subseteq Cmds /\ passed' \subseteq out'
                 /\ ran' \subseteq Cmds /\ passed' \subseteq ran'
                 /\ out \cup ran \subseteq out' \cup ran'
      BY <2>2, <1>t DEF EspReceives, TypeOK, PassedIsRun
    <2>3. ASSUME NEW c \in Cmds, Puback(c)
          PROVE  /\ mqtt' \in BOOLEAN /\ out' \subseteq Cmds /\ passed' \subseteq out'
                 /\ ran' \subseteq Cmds /\ passed' \subseteq ran'
                 /\ out \cup ran \subseteq out' \cup ran'
      BY <2>3, <1>t DEF Puback, TypeOK, PassedIsRun, historyVars
    <2>4. QED
      BY <2>1, <2>2, <2>3 DEF Broker
  <1>3. TypeOK'
    BY <1>1, <1>2, <1>t DEF TypeOK
  <1>4. InboxInOrder' /\ PassedIsRun' /\ issued <= issued'
    BY <1>1, <1>2, <1>t DEF InboxInOrder, PassedIsRun, TypeOK
  <1>5. QED
    BY <1>1, <1>2, <1>3, <1>4, OthersKeep DEF gatewayVars

-------------------------------------------------------------------------------
(* A report is the first verdict on the command at work, and the command    *)
(* has no other afterwards.                                                 *)
LEMMA ReportKeeps ==
    ASSUME IInv, Report PROVE IInv'
  <1>t. /\ TypeOK /\ InboxInOrder /\ LastIdIsLast /\ HandlerIsLast /\ ReportedWasHandled
        /\ PassedIsRun /\ HandledOnceInOrder /\ OneVerdict /\ Accounted
    BY DEF IInv
  <1>1. /\ handler.pc = "report" /\ reports' = reports \cup {<<handler.cmd, handler.status>>}
        /\ UNCHANGED <<issued, link, inbox, lastId, mqtt, out, passed, handled, ran, unsaid, lost>>
    BY DEF Report, brokerVars
  <1>2. handler.cmd \in Cmds /\ handler.status \in Statuses
    BY <1>1, <1>t DEF TypeOK
  <1>3. \/ handler' = Idle
        \/ handler.status = "SUCCESS" /\ handler' = [handler EXCEPT !.pc = "vision"]
    BY DEF Report
  <1>4. /\ handler' \in [pc : {"idle", "capture", "report", "vision"},
                         cmd : Cmds \cup {None}, status : Statuses]
        /\ handler'.pc = "idle" <=> handler'.cmd = None
        /\ handler'.pc = "vision" => handler'.status = "SUCCESS"
        /\ handler'.pc \notin {"capture", "report"} /\ handler'.cmd \in {None, handler.cmd}
        /\ handler'.pc = "vision" => <<handler'.cmd, handler'.status>> = <<handler.cmd, handler.status>>
    <2>1. CASE handler' = Idle
      BY <2>1 DEF Idle, Statuses
    <2>2. CASE handler.status = "SUCCESS" /\ handler' = [handler EXCEPT !.pc = "vision"]
      BY <2>2, <1>1, <1>t DEF TypeOK
    <2>3. QED
      BY <1>3, <2>1, <2>2
  <1>5. reports' \subseteq Cmds \X Statuses
    BY <1>1, <1>2, <1>t DEF TypeOK
  <1>6. TypeOK'
    BY <1>1, <1>4, <1>5, <1>t DEF TypeOK
  <1>7. InboxInOrder' /\ LastIdIsLast' /\ PassedIsRun' /\ HandledOnceInOrder'
    BY <1>1, <1>t DEF InboxInOrder, LastIdIsLast, PassedIsRun, HandledOnceInOrder
  <1>8. HandlerIsLast'
    BY <1>1, <1>4, <1>t DEF HandlerIsLast
  <1>9. ReportedWasHandled'
    <2>1. \E i \in DOMAIN handled : handled[i] = handler.cmd
      BY <1>1, <1>t DEF HandlerIsLast, TypeOK
    <2>2. QED
      BY <1>1, <2>1, <1>t DEF ReportedWasHandled
  <1>10. OneVerdict'
    <2>1. \A s \in Statuses : <<handler.cmd, s>> \notin reports
      BY <1>1, <1>t DEF HandlerIsLast
    <2>2. QED
      BY <1>1, <2>1, <1>t DEF OneVerdict
  <1>11. Accounted'
    <2>1. SUFFICES ASSUME NEW i \in DOMAIN handled
                   PROVE  \/ handled[i] \in out \cup ran \cup unsaid \cup lost \cup {handler'.cmd}
                          \/ Kind[handled[i]] \in {"noid", "garbled"}
                          \/ \E s \in Statuses : <<handled[i], s>> \in reports'
      BY <1>1 DEF Accounted
    <2>2. CASE handled[i] = handler.cmd
      BY <2>2, <1>1, <1>2
    <2>3. CASE handled[i] # handler.cmd
      BY <2>3, <1>1, <1>t DEF Accounted
    <2>4. QED
      BY <2>2, <2>3
  <1>12. QED
    BY <1>6, <1>7, <1>8, <1>9, <1>10, <1>11 DEF IInv

LEMMA CaptureKeeps ==
    ASSUME IInv, CaptureEnds \/ CaptureTimesOut PROVE IInv'
  <1>t. TypeOK
    BY DEF IInv
  <1>1. PICK s \in Statuses : handler' = Reporting(handler.cmd, s)
    BY DEF CaptureEnds, CaptureTimesOut, Statuses
  <1>2. /\ handler.pc = "capture"
        /\ UNCHANGED <<issued, link, inbox, lastId, brokerVars, historyVars>>
    BY DEF CaptureEnds, CaptureTimesOut
  <1>3. handler.cmd \in Cmds
    BY <1>2, <1>t DEF TypeOK
  <1>4. /\ handler'.pc = "report" /\ handler'.cmd = handler.cmd /\ handler'.cmd # None
        /\ handler' \in [pc : {"idle", "capture", "report", "vision"},
                         cmd : Cmds \cup {None}, status : Statuses]
    BY <1>1, <1>3 DEF Reporting, Cmds, None
  <1>5. TypeOK'
    BY <1>2, <1>4, <1>t DEF TypeOK, brokerVars, historyVars
  <1>6. QED
    BY <1>2, <1>4, <1>5, HandlerKeeps DEF historyVars

LEMMA HandlerEndKeeps ==
    ASSUME IInv, ReportRaises \/ VisionEnds PROVE IInv'
  <1>t. TypeOK /\ HandlerIsLast
    BY DEF IInv
  <1>1. /\ handler' = Idle /\ handler'.pc = "idle" /\ handler'.cmd = None
        /\ handler' \in [pc : {"idle", "capture", "report", "vision"},
                         cmd : Cmds \cup {None}, status : Statuses]
    BY DEF ReportRaises, VisionEnds, Idle, Statuses
  <1>2. UNCHANGED <<issued, link, inbox, lastId, handled, reports, brokerVars, ran>>
    BY DEF ReportRaises, VisionEnds, historyVars
  <1>3. /\ unsaid \subseteq unsaid' /\ unsaid' \subseteq Cmds /\ lost' = lost
        /\ handler.cmd \in unsaid' \/ \E s \in Statuses : <<handler.cmd, s>> \in reports
    <2>1. CASE ReportRaises
      BY <2>1, <1>t DEF ReportRaises, TypeOK
    <2>2. CASE VisionEnds
      BY <2>2, <1>t DEF VisionEnds, TypeOK, HandlerIsLast, historyVars
    <2>3. QED
      BY <2>1, <2>2
  <1>4. TypeOK'
    BY <1>1, <1>2, <1>3, <1>t DEF TypeOK, brokerVars
  <1>5. QED
    BY <1>1, <1>2, <1>3, <1>4, HandlerKeeps

LEMMA RestartKeeps ==
    ASSUME IInv, Restart PROVE IInv'
  <1>t. /\ TypeOK /\ LastIdIsLast /\ ReportedWasHandled /\ HandledOnceInOrder
        /\ OneVerdict /\ Accounted
    BY DEF IInv
  <1>1. /\ inbox' = << >> /\ lastId' = None /\ handler' = Idle /\ link' = "down"
        /\ mqtt' = FALSE /\ out' = {} /\ passed' = {}
        /\ lost' = lost \cup out \cup ({handler.cmd} \ {None})
        /\ UNCHANGED <<issued, handled, reports, ran, unsaid>>
    BY DEF Restart
  <1>2. /\ Idle \in [pc : {"idle", "capture", "report", "vision"},
                     cmd : Cmds \cup {None}, status : Statuses]
        /\ Idle.pc = "idle" /\ Idle.cmd = None
    BY DEF Idle, Statuses
  <1>3. mqtt' \in BOOLEAN
    BY <1>1, Zenon
  <1>4. inbox' \in Seq(Cmds) /\ unsaid' \subseteq Cmds /\ lost' \subseteq Cmds
    BY <1>1, <1>t, SequencesOfCommands DEF TypeOK
  <1>5. TypeOK'
    BY <1>1, <1>2, <1>3, <1>4, <1>t DEF TypeOK
  <1>6. InboxInOrder' /\ LastIdIsLast' /\ PassedIsRun' /\ HandledOnceInOrder'
    BY <1>1, <1>t DEF InboxInOrder, LastIdIsLast, PassedIsRun, HandledOnceInOrder, Increasing
  <1>7. HandlerIsLast' /\ ReportedWasHandled' /\ OneVerdict'
    BY <1>1, <1>2, <1>t DEF HandlerIsLast, ReportedWasHandled, OneVerdict
  <1>8. Accounted'
    <2>1. SUFFICES ASSUME NEW i \in DOMAIN handled
                   PROVE  \/ handled[i] \in ran \cup unsaid \cup lost'
                          \/ Kind[handled[i]] \in {"noid", "garbled"}
                          \/ \E s \in Statuses : <<handled[i], s>> \in reports
      BY <1>1 DEF Accounted
    <2>2. handled[i] # None
      BY <1>t, SequencesOfCommands DEF TypeOK
    <2>3. QED
      BY <2>2, <1>1, <1>t DEF Accounted
  <1>9. QED
    BY <1>5, <1>6, <1>7, <1>8 DEF IInv

LEMMA TakeKeeps ==
    ASSUME IInv, Take PROVE IInv'
  <1>t. TypeOK
    BY DEF IInv
  <1>1. CASE TakeCapture
    <2>1. handler'.cmd = NextCmd
      BY <1>1 DEF TakeCapture
    <2>2. out \subseteq out' /\ out' \subseteq Cmds /\ Received
      BY <1>1, <1>t DEF TakeCapture, brokerVars, TypeOK
    <2>3. QED
      BY <1>1, <2>1, <2>2, ReceivedKeeps DEF TakeCapture, brokerVars
  <1>2. CASE TakeUnknown
    <2>1. handler'.cmd = NextCmd
      BY <1>2 DEF TakeUnknown, Reporting
    <2>2. out \subseteq out' /\ out' \subseteq Cmds /\ Received
      BY <1>2, <1>t DEF TakeUnknown, brokerVars, TypeOK
    <2>3. QED
      BY <1>2, <2>1, <2>2, ReceivedKeeps DEF TakeUnknown, brokerVars
  <1>3. CASE Publish \/ PublishRefused
    <2>1. Received /\ out' = out \cup {NextCmd}
      BY <1>3 DEF Publish, PublishRefused
    <2>2. out \subseteq out' /\ out' \subseteq Cmds /\ NextCmd \in out'
      BY <2>1, <1>t, ReceivedShape DEF TypeOK
    <2>3. QED
      BY <1>3, <2>1, <2>2, ReceivedKeeps DEF Publish, PublishRefused
  <1>4. CASE TakeGarbled \/ TakeNameless
    <2>1. /\ Received /\ Kind[NextCmd] \in {"noid", "garbled"}
          /\ UNCHANGED <<issued, link, handler, mqtt, out, passed, reports, ran, unsaid, lost>>
      BY <1>4 DEF TakeGarbled, TakeNameless, brokerVars
    <2>2. out \subseteq out' /\ out' \subseteq Cmds
      BY <2>1, <1>t DEF TypeOK
    <2>3. QED
      BY <2>1, <2>2, ReceivedKeeps
  <1>5. QED
    BY <1>1, <1>2, <1>3, <1>4 DEF Take

LEMMA NextInv == IInv /\ [Next]_vars => IInv'
  <1>1. SUFFICES ASSUME IInv, [Next]_vars PROVE IInv'
    OBVIOUS
  <1>2. CASE Connection
    <2>1. CASE LinkBreaks \/ LinkClosed \/ ReceiveLoopEnds \/ ReceiveLoopFails
      BY <1>1, <2>1, LinkKeeps DEF LinkBreaks, LinkClosed, ReceiveLoopEnds, ReceiveLoopFails
    <2>2. QED
      BY <1>1, <1>2, <2>1, ConnectKeeps, IssueKeeps DEF Connection
  <1>3. CASE Take
    BY <1>1, <1>3, TakeKeeps
  <1>4. CASE Handling
    BY <1>1, <1>4, CaptureKeeps, ReportKeeps, HandlerEndKeeps DEF Handling
  <1>5. CASE Broker
    BY <1>1, <1>5, BrokerKeeps
  <1>6. CASE Restart
    BY <1>1, <1>6, RestartKeeps
  <1>7. CASE UNCHANGED vars
    <2>1. UNCHANGED <<issued, link, inbox, lastId, handler, mqtt, out, passed, handled,
                      reports, ran, unsaid, lost>>
      BY <1>7 DEF vars, gatewayVars, brokerVars, historyVars
    <2>2. QED
      BY <1>1, <2>1 DEF IInv, TypeOK, InboxInOrder, LastIdIsLast, HandlerIsLast,
                        ReportedWasHandled, PassedIsRun, HandledOnceInOrder, OneVerdict,
                        Accounted
  <1>8. QED
    BY <1>1, <1>2, <1>3, <1>4, <1>5, <1>6, <1>7 DEF Next

-------------------------------------------------------------------------------
(* The inductive invariant holds in every reachable state.                  *)
THEOREM CommandsInvariance == Spec => []IInv
  <1>1. QED
    BY InitInv, NextInv, PTL DEF Spec

(* Whatever connections, replays, restarts and broker outages come, no      *)
(* command is dispatched twice or out of order.                             *)
THEOREM DispatchOrder == Spec => []HandledOnceInOrder
  <1>1. IInv => HandledOnceInOrder
    BY DEF IInv
  <1>2. QED
    BY <1>1, CommandsInvariance, PTL

(* The gateway never contradicts itself about a command.                    *)
THEOREM NoSecondVerdict == Spec => []OneVerdict
  <1>1. IInv => OneVerdict
    BY DEF IInv
  <1>2. QED
    BY <1>1, CommandsInvariance, PTL

LEMMA AccountsSuffice ==
    ASSUME TypeOK, Accounted
    PROVE  NoneForgotten
  <1>1. SUFFICES ASSUME NEW c \in Forgotten
                 PROVE  c \in lost \cup unsaid \cup OfKind("noid") \cup OfKind("garbled")
    BY DEF NoneForgotten
  <1>2. c \in Cmds /\ c \notin out \cup ran \cup {handler.cmd} /\ Verdicts(c) = {}
    BY DEF Forgotten
  <1>3. PICK i \in DOMAIN handled : handled[i] = c
    BY DEF Forgotten, Dispatched
  <1>4. \A s \in Statuses : <<c, s>> \notin reports
    BY <1>2 DEF Verdicts
  <1>5. c \in unsaid \cup lost \/ Kind[c] \in {"noid", "garbled"}
    BY <1>2, <1>3, <1>4 DEF Accounted
  <1>6. QED
    BY <1>2, <1>5 DEF OfKind

(* Whatever is done about a command, it is answered, published, or one of  *)
(* those that the code can leave without either.                           *)
THEOREM NoCommandForgotten == Spec => []NoneForgotten
  <1>1. IInv => NoneForgotten
    BY AccountsSuffice DEF IInv
  <1>2. QED
    BY <1>1, CommandsInvariance, PTL

(* Every variable of the command path keeps its type.                       *)
THEOREM CommandsTypeCorrect == Spec => []TypeOK
  <1>1. IInv => TypeOK
    BY DEF IInv
  <1>2. QED
    BY <1>1, CommandsInvariance, PTL

-------------------------------------------------------------------------------
(* The gateway keeps a ledger. *)

LEMMA NewestStep ==
    ASSUME IInv, HandlerIsNewest, [Next]_vars
    PROVE  HandlerIsNewest'
  <1>t. TypeOK
    BY DEF IInv
  <1>1. CASE Take
    <2>1. Received /\ (handler' = handler \/ handler'.cmd = NextCmd)
      BY <1>1 DEF Take, TakeCapture, TakeUnknown, TakeGarbled, TakeNameless, Publish, PublishRefused, Reporting
    <2>2. /\ handler.cmd = None /\ handled' \in Seq(Cmds)
          /\ handled'[Len(handled) + 1] = NextCmd /\ Len(handled') = Len(handled) + 1
      BY <1>t, <2>1, ReceivedShape, AppendProperties DEF TypeOK, Received
    <2>3. handled' # << >>
      BY <1>t, <2>1, <2>2 DEF TypeOK
    <2>4. QED
      BY <2>1, <2>2, <2>3 DEF HandlerIsNewest
  <1>2. CASE Handling \/ Restart
    <2>1. handled' = handled /\ handler'.cmd \in {None, handler.cmd}
      BY <1>t, <1>2 DEF Handling, CaptureEnds, CaptureTimesOut, Report, ReportRaises, VisionEnds,
                        Restart, Reporting, Idle, historyVars, TypeOK
    <2>2. QED
      BY <2>1 DEF HandlerIsNewest
  <1>3. CASE Connection \/ Broker \/ UNCHANGED vars
    <2>1. handled' = handled /\ handler' = handler
      BY <1>3 DEF Connection, Connect, Issue, LinkBreaks, LinkClosed, ReceiveLoopEnds,
                  ReceiveLoopFails, Broker, MqttConnects, MqttDisconnects, EspReceives, Puback,
                  vars, gatewayVars, historyVars
    <2>2. QED
      BY <2>1 DEF HandlerIsNewest
  <1>4. QED
    BY <1>1, <1>2, <1>3 DEF Next

LEMMA SuccessStep ==
    ASSUME IInv, SuccessIsACapture, [Next]_vars
    PROVE  SuccessIsACapture'
  <1>t. TypeOK
    BY DEF IInv
  <1>1. CASE Take
    <2>1. \/ handler' = handler
          \/ handler'.pc = "capture" /\ Kind[handler'.cmd] = "capture"
          \/ handler'.pc = "report" /\ handler'.status = "FAILED"
      BY <1>1 DEF Take, TakeCapture, TakeUnknown, TakeGarbled, TakeNameless, Publish, PublishRefused, Reporting
    <2>2. QED
      BY <2>1 DEF SuccessIsACapture
  <1>2. CASE Handling \/ Restart
    <2>1. \/ handler' = Idle
          \/ /\ handler'.cmd = handler.cmd /\ handler'.pc # "capture"
             /\ handler.pc = "capture" \/ handler'.status \in {"FAILED", handler.status}
      BY <1>t, <1>2 DEF Handling, CaptureEnds, CaptureTimesOut, Report, ReportRaises, VisionEnds,
                        Restart, Reporting, TypeOK
    <2>2. QED
      BY <2>1 DEF SuccessIsACapture, Idle
  <1>3. CASE Connection \/ Broker \/ UNCHANGED vars
    <2>1. handler' = handler
      BY <1>3 DEF Connection, Connect, Issue, LinkBreaks, LinkClosed, ReceiveLoopEnds,
                  ReceiveLoopFails, Broker, MqttConnects, MqttDisconnects, EspReceives, Puback,
                  vars, gatewayVars
    <2>2. QED
      BY <2>1 DEF SuccessIsACapture
  <1>4. QED
    BY <1>1, <1>2, <1>3 DEF Next

LEMMA QueuedStep ==
    ASSUME IInv, QueuedWasPublished, [Next]_vars
    PROVE  QueuedWasPublished'
  <1>t. TypeOK
    BY DEF IInv
  <1>1. CASE Take
    <2>1. /\ Received
          /\ out' = out \/ (out' = out \cup {NextCmd} /\ Kind[NextCmd] = "esp32")
      BY <1>1 DEF Take, TakeCapture, TakeUnknown, TakeGarbled, TakeNameless, Publish, PublishRefused, brokerVars
    <2>2. /\ DOMAIN handled' = DOMAIN handled \cup {Len(handled) + 1}
          /\ \A i \in DOMAIN handled : handled'[i] = handled[i]
          /\ handled'[Len(handled) + 1] = NextCmd
      BY <1>t, <2>1, ReceivedShape
    <2>3. QED
      BY <2>1, <2>2 DEF QueuedWasPublished
  <1>2. CASE ~Take
    <2>1. handled' = handled /\ out' \subseteq out
      BY <1>2 DEF Next, Connection, Connect, Issue, LinkBreaks, LinkClosed, ReceiveLoopEnds,
                  ReceiveLoopFails, Broker, MqttConnects, MqttDisconnects, EspReceives, Puback,
                  Handling, CaptureEnds, CaptureTimesOut, Report, ReportRaises, VisionEnds,
                  Restart, vars, gatewayVars, brokerVars, historyVars
    <2>2. QED
      BY <2>1 DEF QueuedWasPublished
  <1>3. QED
    BY <1>1, <1>2

LEMMA LedgerInvariance == Spec => []LedgerInv
  <1>1. Init => LedgerInv
    BY DEF Init, Idle, LedgerInv, HandlerIsNewest, SuccessIsACapture, QueuedWasPublished
  <1>2. IInv /\ LedgerInv /\ [Next]_vars => LedgerInv'
    BY NewestStep, SuccessStep, QueuedStep DEF LedgerInv
  <1>3. QED
    BY <1>1, <1>2, CommandsInvariance, PTL DEF Spec

LEMMA LedgerBegins == Init => Ledger!Init
  <1>1. SUFFICES ASSUME Init PROVE Ledger!Init
    OBVIOUS
  <1>2. [c \in Cmds |-> Verdicts(c)] = [c \in Cmds |-> {}]
    BY <1>1 DEF Init, Verdicts
  <1>3. QED
    BY <1>1, <1>2 DEF Init, Ledger!Init

(* A command is taken when all that were dispatched before are older. *)
LEMMA TakenIsEntered ==
    ASSUME IInv, Take
    PROVE  Ledger!Enter(NextCmd) /\ NextCmd \in Cmds
  <1>t. TypeOK /\ InboxInOrder
    BY DEF IInv
  <1>1. Received /\ UNCHANGED <<reports, ran>>
    BY DEF Take, TakeCapture, TakeUnknown, TakeGarbled, TakeNameless, Publish, PublishRefused
  <1>2. NextCmd \in Cmds /\ NextCmd = inbox[1] /\ 1 \in DOMAIN inbox
    BY <1>t, <1>1, ReceivedShape
  <1>3. \A i \in DOMAIN handled : handled[i] < NextCmd
    BY <1>t, <1>2 DEF InboxInOrder
  <1>4. handled' = Append(handled, NextCmd)
    BY <1>1 DEF Received
  <1>5. QED
    BY <1>1, <1>2, <1>3, <1>4 DEF Ledger!Enter, Verdicts

(* A report is about the command at work, which has no verdict yet. *)
LEMMA ReportIsAVerdict ==
    ASSUME IInv, LedgerInv, Report
    PROVE  handler.cmd \in Cmds /\ handler.status \in Statuses
           /\ Ledger!Judge(handler.cmd, handler.status)
  <1>t. TypeOK /\ HandlerIsLast
    BY DEF IInv
  <1> DEFINE c == handler.cmd
             verdictOf == [d \in Cmds |-> Verdicts(d)]
  <1>1. c \in Cmds /\ c # None /\ handler.status \in Statuses
    BY <1>t DEF Report, TypeOK
  <1>2. handled # << >> /\ c = handled[Len(handled)]
    BY <1>1 DEF LedgerInv, HandlerIsNewest
  <1>3. verdictOf[c] = {}
    BY <1>t, <1>1 DEF HandlerIsLast, Report, Verdicts
  <1>4. handler.status = "SUCCESS" => c \in OfKind("capture")
    BY <1>1 DEF LedgerInv, SuccessIsACapture, OfKind
  <1>5. reports' = reports \cup {<<c, handler.status>>} /\ UNCHANGED <<handled, ran>>
    BY DEF Report
  <1>6. verdictOf' = [verdictOf EXCEPT ![c] = {handler.status}]
    BY <1>1, <1>3, <1>5 DEF Verdicts
  <1>7. QED
    BY <1>1, <1>2, <1>3, <1>4, <1>5, <1>6 DEF Ledger!Judge

LEMMA NotInTheLedger ==
    ASSUME UNCHANGED <<handled, reports, ran>>
    PROVE  UNCHANGED Ledger!ledgerVars
  BY DEF Ledger!ledgerVars, Verdicts

LEMMA LedgerStep == IInv /\ LedgerInv /\ [Next]_vars => [Ledger!Next]_(Ledger!ledgerVars)
  <1> SUFFICES ASSUME IInv, LedgerInv, [Next]_vars
               PROVE  Ledger!Next \/ UNCHANGED Ledger!ledgerVars
    OBVIOUS
  <1>1. CASE Take
    BY <1>1, TakenIsEntered DEF Ledger!Next
  <1>2. CASE Report
    BY <1>2, ReportIsAVerdict DEF Ledger!Next, Statuses
  <1>3. CASE CaptureEnds \/ CaptureTimesOut \/ ReportRaises \/ VisionEnds \/ Restart
    BY <1>3, NotInTheLedger DEF CaptureEnds, CaptureTimesOut, ReportRaises, VisionEnds, Restart,
                                historyVars
  <1>4. CASE Connection \/ UNCHANGED vars
    BY <1>4, NotInTheLedger DEF Connection, Connect, Issue, LinkBreaks, LinkClosed,
                                ReceiveLoopEnds, ReceiveLoopFails, vars, historyVars
  <1>5. ASSUME NEW c \in Cmds, EspReceives(c) PROVE Ledger!Execute(c)
    <2>1. c \in out /\ ran' = ran \cup {c} /\ UNCHANGED <<handled, reports>>
      BY <1>5 DEF EspReceives
    <2>2. c \in OfKind("esp32") /\ \E i \in DOMAIN handled : handled[i] = c
      BY <2>1 DEF LedgerInv, QueuedWasPublished, OfKind
    <2>3. QED
      BY <2>1, <2>2 DEF Ledger!Execute, Verdicts
  <1>6. ASSUME NEW c \in Cmds, Puback(c) PROVE UNCHANGED Ledger!ledgerVars
    BY <1>6, NotInTheLedger DEF Puback, historyVars
  <1>7. CASE MqttConnects \/ MqttDisconnects
    BY <1>7, NotInTheLedger DEF MqttConnects, MqttDisconnects, historyVars
  <1>8. QED
    BY <1>1, <1>2, <1>3, <1>4, <1>5, <1>6, <1>7 DEF Next, Handling, Broker, Ledger!Next

(* Reconnects, replays, outages of the broker, timeouts and restarts leave *)
(* the gateway with one ordered ledger: entries once each, verdicts on the *)
(* last entry only and never revised, SUCCESS for a capture only, and at   *)
(* the ESP32 nothing but its own commands, each after its entry.           *)
THEOREM CommandsKeepALedger == Spec => ImplementsLedger
  <1>1. QED
    BY LedgerBegins, LedgerStep, CommandsInvariance, LedgerInvariance, PTL
       DEF Spec, ImplementsLedger, Ledger!Spec
===============================================================================
