------------------------------- MODULE DRAMSim -------------------------------
(***************************************************************************)
(* One channel of DRAMSim2 (MemorySystem, MemoryController, CommandQueue,  *)
(* Rank, BankState), the memory behind the caches when SimpleDRAM is not   *)
(* used.  MemorySystem::update is one sequential pass over the ranks and   *)
(* the controller; here it is a composition of functions on the record     *)
(* dram, one for each part of the pass, in the order of the code.          *)
(*                                                                         *)
(* Clocks are kept relative: a field nextX is the number of cycles until X *)
(* is allowed, so that currentClockCycle >= nextX reads nextX = 0.         *)
(* An ERROR followed by exit() adds a name to dram.errors.  Data, columns, *)
(* energy and statistics are left out; AL is 0 in every device file.       *)
(***************************************************************************)
EXTENDS Integers, Sequences, FiniteSets

CONSTANTS
    NUM_RANKS, NUM_BANKS,
    Timing,             \* the t parameters of a device file, BL2 is BL/2
    RefreshCycles,      \* REFRESH_PERIOD/tCK
    CMD_QUEUE_DEPTH, TRANS_QUEUE_DEPTH, TOTAL_ROW_ACCESSES,
    Options,            \* [page, queue, order] of the system file
    Bursts              \* bound: the sequences of accesses [rank, bank, row, write] made

ASSUME DRAMSimAssumption ==
    /\ NUM_RANKS \in Nat \ {0} /\ NUM_BANKS \in Nat \ {0}
    /\ \A t \in DOMAIN Timing : Timing[t] \in Nat
    /\ CMD_QUEUE_DEPTH >= 2 /\ TRANS_QUEUE_DEPTH >= 1
    /\ Options \subseteq [page : {"OpenPage", "ClosePage"},
                          queue : {"PerRank", "PerRankPerBank"},
                          order : {"RankThenBank", "BankThenRank"}]

Ranks == 0 .. NUM_RANKS - 1
Banks == 0 .. NUM_BANKS - 1

Later(a, b) == IF a >= b THEN a ELSE b
Least(S) == CHOOSE x \in S : \A y \in S : x <= y
Without(q, i) == SubSeq(q, 1, i - 1) \o SubSeq(q, i + 1, Len(q))

(* The delays of SystemConfiguration.h. *)
RL == Timing.CL
WL == RL - 1
Burst == Later(Timing.tCCD, Timing.BL2)
READ_TO_PRE_DELAY     == Timing.BL2 + Later(Timing.tRTP, Timing.tCCD) - Timing.tCCD
WRITE_TO_PRE_DELAY    == WL + Timing.BL2 + Timing.tWR
READ_TO_WRITE_DELAY   == RL + Timing.BL2 + Timing.tRTRS - WL
READ_AUTOPRE_DELAY    == Timing.tRTP + Timing.tRP
WRITE_AUTOPRE_DELAY   == WL + Timing.BL2 + Timing.tWR + Timing.tRP
WRITE_TO_READ_DELAY_B == WL + Timing.BL2 + Timing.tWTR
WRITE_TO_READ_DELAY_R == WL + Timing.BL2 + Timing.tRTRS - RL

VARIABLES
    ini,    \* the options read from the system file
    trans,  \* the transactions added so far
    dram    \* the memory system

dramVars == <<ini, trans, dram>>

IdleBank == [state |-> "Idle", row |-> 0, nextRead |-> 0, nextWrite |-> 0, nextActivate |-> 0,
             nextPrecharge |-> 0, last |-> "READ", countdown |-> 0]

DRAMInit ==
    /\ ini \in Options
    /\ trans = <<>>
    /\ dram = [transactionQueue |-> <<>>,
               queues |-> [r \in Ranks |-> [b \in Banks |-> <<>>]],
               pendingReads |-> <<>>, returns |-> <<>>,
               bank |-> [r \in Ranks |-> [b \in Banks |-> IdleBank]],
               powerUp |-> [r \in Ranks |-> 0], powerDown |-> [r \in Ranks |-> FALSE],
               cmdBus |-> {}, dataBus |-> {}, writes |-> <<>>,
               refreshCountdown |-> [r \in Ranks |-> (RefreshCycles \div NUM_RANKS) * (r + 1)],
               refreshRank |-> 0, refresh |-> {},
               next |-> <<0, 0>>, nextPRE |-> <<0, 0>>,
               rowAccess |-> [r \in Ranks |-> [b \in Banks |-> 0]],
               faw |-> [r \in Ranks |-> <<>>],
               rank |-> [r \in Ranks |-> [bank |-> [b \in Banks |-> IdleBank], powerUp |-> 0,
                                          refreshWaiting |-> FALSE, reads |-> <<>>, out |-> {}]],
               issued |-> <<>>, done |-> {}, errors |-> {}]

Failed(d, name, ok) == IF ok THEN d ELSE [d EXCEPT !.errors = @ \cup {name}]

-----------------------------------------------------------------------------
(* Rank.cpp *)

Passed(n) == IF n > 0 THEN n - 1 ELSE 0

\* MemoryController::receiveFromBus: the data of a read, at the end of its burst.
receiveFromBus(d, packets) ==
    [d EXCEPT !.returns = IF packets = {} THEN @ ELSE Append(@, CHOOSE p \in packets : TRUE)]

\* Rank::update: the read on the bus, then the reads whose RL has passed.
RankUpdate(d, r) ==
    LET k    == d.rank[r]
        left == {[p EXCEPT !.left = @ - 1] : p \in k.out}
        wait == [i \in DOMAIN k.reads |-> [k.reads[i] EXCEPT !.left = @ - 1]]
        due  == wait # <<>> /\ Head(wait).left = 0
    IN  [receiveFromBus(d, {p \in left : p.left = 0}) EXCEPT
           !.rank[r].out = IF due THEN {[Head(wait) EXCEPT !.left = Timing.BL2]}
                           ELSE {p \in left : p.left > 0},
           !.rank[r].reads = IF due THEN Tail(wait) ELSE wait]

Allowed(b, p) ==
    CASE p.type \in {"READ", "READ_P"}   -> b.state = "RowActive" /\ b.nextRead = 0 /\ b.row = p.row
      [] p.type \in {"WRITE", "WRITE_P"} -> b.state = "RowActive" /\ b.nextWrite = 0 /\ b.row = p.row
      [] p.type = "ACTIVATE"  -> b.state = "Idle" /\ b.nextActivate = 0
      [] p.type = "PRECHARGE" -> b.state = "RowActive" /\ b.nextPrecharge = 0
      [] p.type = "REFRESH"   -> b.state = "Idle"

\* The rank's own state table after a command: the one that opens or closes rows,
RowTable(s, p, here) ==
    CASE p.type = "ACTIVATE" ->
           IF here THEN [s EXCEPT !.state = "RowActive", !.row = p.row, !.nextActivate = Timing.tRC,
                                  !.nextRead = Timing.tRCD, !.nextWrite = Timing.tRCD,
                                  !.nextPrecharge = Timing.tRAS]
           ELSE [s EXCEPT !.nextActivate = Later(@, Timing.tRRD)]
      [] p.type = "PRECHARGE" ->
           IF here THEN [s EXCEPT !.state = "Idle", !.nextActivate = Later(@, Timing.tRP)] ELSE s
      [] p.type = "REFRESH" -> [s EXCEPT !.nextActivate = Timing.tRFC]

\* and any.
RankTable(bank, p) ==
    [b \in Banks |->
       LET s == bank[b]
           here == b = p.bank
       IN CASE p.type \in {"READ", "READ_P"} ->
                 [s EXCEPT !.nextRead = Later(@, Burst), !.nextWrite = Later(@, READ_TO_WRITE_DELAY),
                           !.nextPrecharge = IF here /\ p.type = "READ" THEN Later(@, READ_TO_PRE_DELAY) ELSE @,
                           !.state = IF here /\ p.type = "READ_P" THEN "Idle" ELSE @,
                           !.nextActivate = IF here /\ p.type = "READ_P" THEN Later(@, READ_AUTOPRE_DELAY) ELSE @]
            [] p.type \in {"WRITE", "WRITE_P"} ->
                 [s EXCEPT !.nextWrite = Later(@, Burst), !.nextRead = Later(@, WRITE_TO_READ_DELAY_B),
                           !.nextPrecharge = IF here /\ p.type = "WRITE" THEN Later(@, WRITE_TO_PRE_DELAY) ELSE @,
                           !.state = IF here /\ p.type = "WRITE_P" THEN "Idle" ELSE @,
                           !.nextActivate = IF here /\ p.type = "WRITE_P" THEN Later(@, WRITE_AUTOPRE_DELAY) ELSE @]
            [] OTHER -> RowTable(s, p, here)]

\* Rank::receiveFromBus, for a command; DATA packets end here without a trace.
RankReceive(d, p) ==
    LET ok == \A b \in Banks : b = p.bank \/ p.type = "REFRESH" => Allowed(d.rank[p.rank].bank[b], p)
    IN  Failed([d EXCEPT
                  !.rank[p.rank].bank = RankTable(@, p),
                  !.rank[p.rank].refreshWaiting = @ /\ p.type # "REFRESH",
                  !.rank[p.rank].reads = IF p.type \in {"READ", "READ_P"}
                                         THEN Append(@, [addr |-> p.addr, left |-> RL]) ELSE @],
               "rank", ok)

-----------------------------------------------------------------------------
(* First part of MemoryController::update. *)

\* The implicit state changes of the banks.
BankCountdown(s) ==
    IF s.countdown = 0 THEN s
    ELSE IF s.countdown > 1 THEN [s EXCEPT !.countdown = @ - 1]
    ELSE IF s.last \in {"READ_P", "WRITE_P"}
         THEN [s EXCEPT !.state = "Precharging", !.last = "PRECHARGE", !.countdown = Timing.tRP]
    ELSE IF s.last \in {"REFRESH", "PRECHARGE"} THEN [s EXCEPT !.state = "Idle", !.countdown = 0]
    ELSE [s EXCEPT !.countdown = 0]

UpdateBanks(d) ==
    [d EXCEPT !.bank = [r \in Ranks |-> [b \in Banks |-> BankCountdown(@[r][b])]]]

\* The command on the bus reaches its rank after tCMD cycles.
CommandBus(d) ==
    LET left == {[c EXCEPT !.left = @ - 1] : c \in d.cmdBus}
        here == {c \in left : c.left = 0}
        kept == [d EXCEPT !.cmdBus = left \ here]
    IN  IF here = {} THEN kept ELSE RankReceive(kept, (CHOOSE c \in here : TRUE).packet)

\* Write data leaves the bus (WriteDataDone), then the next burst enters it.
DataBus(d) ==
    LET left == {[c EXCEPT !.left = @ - 1] : c \in d.dataBus}
        wait == [i \in DOMAIN d.writes |-> [d.writes[i] EXCEPT !.left = @ - 1]]
        busy == {c \in left : c.left > 0}
        due  == wait # <<>> /\ Head(wait).left = 0
    IN  Failed([d EXCEPT
                  !.done = @ \cup {c.id : c \in left \ busy},
                  !.dataBus = IF due THEN {[id |-> Head(wait).id, left |-> Timing.BL2]} ELSE busy,
                  !.writes = IF due THEN Tail(wait) ELSE wait],
               "data bus", ~due \/ busy = {})

\* A refresh that is due is handed to the command queue (needRefresh); a rank
\* that is powered down is woken up in time.
Refresh(d) ==
    LET r == d.refreshRank IN
    IF d.refreshCountdown[r] = 0
    THEN [d EXCEPT !.refresh = {r}, !.rank[r].refreshWaiting = TRUE,
                   !.refreshCountdown[r] = RefreshCycles,
                   !.refreshRank = (r + 1) % NUM_RANKS]
    ELSE [d EXCEPT !.rank[r].refreshWaiting =
                       @ \/ (d.powerDown[r] /\ d.refreshCountdown[r] <= Timing.tXP)]

-----------------------------------------------------------------------------
(* CommandQueue.cpp *)

QueueOf(b) == IF ini.queue = "PerRank" THEN 0 ELSE b
getCommandQueue(d, r, b) == d.queues[r][QueueOf(b)]

nextRankAndBank_Stuck(rb) == <<(rb[1] + 1) % NUM_RANKS, rb[2]>>

\* The round-robin pointer, one on.
nextRankAndBank(rb) ==
    IF ini.order = "RankThenBank"
    THEN IF rb[1] + 1 < NUM_RANKS THEN <<rb[1] + 1, rb[2]>> ELSE <<0, (rb[2] + 1) % NUM_BANKS>>
    ELSE IF rb[2] + 1 < NUM_BANKS THEN <<rb[1], rb[2] + 1>> ELSE <<(rb[1] + 1) % NUM_RANKS, 0>>

\* The ranks and banks visited from rb on, once round.
Round(rb) ==
    LET at[i \in 0 .. NUM_RANKS * NUM_BANKS - 1] == IF i = 0 THEN rb ELSE nextRankAndBank(at[i - 1])
    IN  at

\* The round over the queues: with one queue for a rank the bank does not move.
QueueRound(rb) ==
    IF ini.queue = "PerRank" THEN [i \in 0 .. NUM_RANKS - 1 |-> <<(rb[1] + i) % NUM_RANKS, rb[2]>>]
    ELSE Round(rb)

RowHit_AnyRow(s, p) == s.state = "RowActive"
RowHit(s, p) == s.state = "RowActive" /\ s.row = p.row

isIssuable(d, p) ==
    LET s == d.bank[p.rank][p.bank]
        open == /\ RowHit(s, p)
                /\ d.rowAccess[p.rank][p.bank] < TOTAL_ROW_ACCESSES
    IN  CASE p.type = "ACTIVATE" -> /\ s.state \in {"Idle", "Refreshing"} /\ s.nextActivate = 0
                                    /\ Len(d.faw[p.rank]) < 4
          [] p.type \in {"READ", "READ_P"}   -> open /\ s.nextRead = 0
          [] p.type \in {"WRITE", "WRITE_P"} -> open /\ s.nextWrite = 0

\* Open page: not past an older access to the same row.
OpenCandidates(d, q) ==
    {i \in DOMAIN q :
       /\ isIssuable(d, q[i])
       /\ \A j \in 1 .. i - 1 :
            ~(q[j].type # "ACTIVATE" /\ q[j].bank = q[i].bank /\ q[j].row = q[i].row)}

\* Close page: not an access whose own activate is still in front of it.
CloseCandidates(d, q) ==
    IF ini.queue = "PerRankPerBank" THEN {i \in DOMAIN q : i = 1 /\ isIssuable(d, q[i])}
    ELSE {i \in DOMAIN q :
            /\ isIssuable(d, q[i])
            /\ ~(i > 1 /\ q[i - 1].type = "ACTIVATE" /\ q[i - 1].addr = q[i].addr)}

Candidates(d, q) == IF ini.page = "OpenPage" THEN OpenCandidates(d, q) ELSE CloseCandidates(d, q)

Plain(type, r, b) == [type |-> type, id |-> 0, rank |-> r, bank |-> b, row |-> 0, addr |-> <<>>]

Nothing(d) == [packet |-> {}, d |-> d]
Take(d, r, b, i) ==
    [packet |-> {getCommandQueue(d, r, b)[i]},
     d |-> [d EXCEPT !.queues[r][QueueOf(b)] = Without(@, i)]]
SendPRE(d, r, b) ==
    [packet |-> {Plain("PRECHARGE", r, b)}, d |-> [d EXCEPT !.rowAccess[r][b] = 0]]

\* The accesses to an open row, then (open page) its precharge.
FinishRow(d, r, b, q) ==
    LET hits == {j \in DOMAIN q : q[j].bank = b /\ q[j].row = d.bank[r][b].row}
        hit  == Least(hits)
    IN  CASE d.bank[r][b].state # "RowActive" -> Nothing(d)
          [] d.bank[r][b].state = "RowActive" /\ hits # {} /\ q[hit].type # "ACTIVATE" ->
               IF isIssuable(d, q[hit]) THEN Take(d, r, b, hit) ELSE Nothing(d)
          [] OTHER -> IF ini.page = "OpenPage" /\ d.bank[r][b].nextPrecharge = 0
                      THEN SendPRE(d, r, b) ELSE Nothing(d)

\* What the waiting refresh sends: whatever finishes the first open row, then
\* the refresh itself.
ForRefresh(d, r) ==
    LET blocking == {b \in Banks : d.bank[r][b].state = "RowActive" \/ d.bank[r][b].nextActivate > 0}
    IN  IF blocking # {}
        THEN FinishRow(d, r, Least(blocking), getCommandQueue(d, r, Least(blocking)))
        ELSE IF d.bank[r][0].state = "PowerDown" THEN Nothing(d)
        ELSE [packet |-> {Plain("REFRESH", r, 0)}, d |-> [d EXCEPT !.refresh = {}]]

\* An access that goes to a row already open takes its unused activate along.
TakeFrom(d, r, b, q, i) ==
    LET taken == [Take(d, r, b, i) EXCEPT !.d.next = <<r, b>>]
    IN  IF ini.page = "OpenPage" /\ i > 1 /\ q[i - 1].type = "ACTIVATE"
        THEN [taken EXCEPT !.d.queues[r][QueueOf(b)] = Without(@, i - 1),
                           !.d.rowAccess[q[i].rank][q[i].bank] = @ + 1]
        ELSE taken

TakeFirst(d, rb, q) == TakeFrom(d, rb[1], rb[2], q, Least(Candidates(d, q)))

\* The first packet that may go, round robin over the queues.
FromRound(d, round) ==
    LET found == {i \in DOMAIN round :
                    /\ round[i][1] \notin d.refresh
                    /\ Candidates(d, getCommandQueue(d, round[i][1], round[i][2])) # {}}
        rb == round[Least(found)]
    IN  IF found = {} THEN Nothing(d) ELSE TakeFirst(d, rb, getCommandQueue(d, rb[1], rb[2]))

\* Open page, nothing to send: close a row nobody waits for or used too often.
CloseRow(d, round) ==
    LET wanted(r, b, q) == \E j \in DOMAIN q : q[j].bank = b /\ q[j].row = d.bank[r][b].row
        found == {i \in DOMAIN round :
                    LET r == round[i][1]
                        b == round[i][2]
                    IN  /\ d.bank[r][b].state = "RowActive" /\ d.bank[r][b].nextPrecharge = 0
                        /\ \/ ~wanted(r, b, getCommandQueue(d, r, b))
                           \/ d.rowAccess[r][b] = TOTAL_ROW_ACCESSES}
        close(rb) == [SendPRE(d, rb[1], rb[2]) EXCEPT !.d.nextPRE = rb]
    IN  IF found = {} \/ ini.page # "OpenPage" THEN Nothing(d) ELSE close(round[Least(found)])

Fawed(d) ==
    LET tick(q) == LET w == [i \in DOMAIN q |-> q[i] - 1] IN
                   IF w # <<>> /\ w[1] = 0 THEN Tail(w) ELSE w
    IN  [d EXCEPT !.faw = [r \in Ranks |-> tick(@[r])]]

\* The packet popped moves the round-robin pointer; an activate counts in its window.
Popped(got) ==
    IF got.packet = {} THEN got
    ELSE [got EXCEPT
            !.d.next = nextRankAndBank(@),
            !.d.faw = [r \in Ranks |-> IF \E p \in got.packet : p.type = "ACTIVATE" /\ p.rank = r
                                       THEN Append(@[r], Timing.tFAW) ELSE @[r]]]

OrElse(got, other) == IF got.packet # {} THEN got ELSE other

Chosen(d) ==
    OrElse(IF d.refresh = {} THEN Nothing(d) ELSE ForRefresh(d, CHOOSE r \in d.refresh : TRUE),
           OrElse(FromRound(d, QueueRound(d.next)), CloseRow(d, Round(d.nextPRE))))

\* CommandQueue::pop.
pop(d) == Popped(Chosen(Fawed(d)))

-----------------------------------------------------------------------------
(* Second part of MemoryController::update. *)

\* What an access means for the banks of another rank: they share the data bus.
ReadTable(s) ==
    IF s.state # "RowActive" THEN s
    ELSE [s EXCEPT !.nextRead = Later(@, Timing.BL2 + Timing.tRTRS),
                   !.nextWrite = Later(@, READ_TO_WRITE_DELAY)]

WriteTable(s) ==
    IF s.state # "RowActive" THEN s
    ELSE [s EXCEPT !.nextWrite = Later(@, Timing.BL2 + Timing.tRTRS),
                   !.nextRead = Later(@, WRITE_TO_READ_DELAY_R)]

\* An access with auto-precharge: nothing more until the next activate.
AutoPre(s, type, delay, pre) ==
    LET act == Later(s.nextActivate, delay) IN
    [s EXCEPT !.nextActivate = act, !.nextRead = act, !.nextWrite = act,
              !.last = type, !.countdown = pre]

\* The controller's state table after the popped command.
Table(s, r, b, p) ==
    LET own  == r = p.rank
        here == own /\ b = p.bank
    IN CASE p.type \in {"READ", "READ_P"} ->
              IF ~own THEN ReadTable(s)
              ELSE LET t == [s EXCEPT !.nextRead = Later(@, Burst),
                                      !.nextWrite = Later(@, READ_TO_WRITE_DELAY)] IN
                   IF ~here THEN t
                   ELSE IF p.type = "READ_P" THEN AutoPre(t, "READ_P", READ_AUTOPRE_DELAY, READ_TO_PRE_DELAY)
                   ELSE [t EXCEPT !.nextPrecharge = Later(@, READ_TO_PRE_DELAY), !.last = "READ"]
         [] p.type \in {"WRITE", "WRITE_P"} ->
              IF ~own THEN WriteTable(s)
              ELSE LET t == [s EXCEPT !.nextWrite = Later(@, Burst),
                                      !.nextRead = Later(@, WRITE_TO_READ_DELAY_B)] IN
                   IF ~here THEN t
                   ELSE IF p.type = "WRITE_P" THEN AutoPre(t, "WRITE_P", WRITE_AUTOPRE_DELAY, WRITE_TO_PRE_DELAY)
                   ELSE [t EXCEPT !.nextPrecharge = Later(@, WRITE_TO_PRE_DELAY), !.last = "WRITE"]
         [] p.type = "ACTIVATE" ->
              IF here THEN [s EXCEPT !.state = "RowActive", !.row = p.row, !.last = "ACTIVATE",
                                     !.nextActivate = Later(@, Timing.tRC),
                                     !.nextPrecharge = Later(@, Timing.tRAS),
                                     !.nextRead = Later(@, Timing.tRCD),
                                     !.nextWrite = Later(@, Timing.tRCD)]
              ELSE IF own THEN [s EXCEPT !.nextActivate = Later(@, Timing.tRRD)] ELSE s
         [] p.type = "PRECHARGE" ->
              IF here THEN [s EXCEPT !.state = "Precharging", !.last = "PRECHARGE",
                                     !.countdown = Timing.tRP,
                                     !.nextActivate = Later(@, Timing.tRP)] ELSE s
         [] p.type = "REFRESH" ->
              IF own THEN [s EXCEPT !.state = "Refreshing", !.last = "REFRESH",
                                    !.countdown = Timing.tRFC, !.nextActivate = Timing.tRFC] ELSE s

\* A command goes on the command bus, if it is free; the data of a write follows.
Send(d, p) ==
    Failed([d EXCEPT
              !.bank = [r \in Ranks |-> [b \in Banks |-> Table(@[r][b], r, b, p)]],
              !.writes = IF p.type \in {"WRITE", "WRITE_P"}
                         THEN Append(@, [id |-> p.id, left |-> WL]) ELSE @,
              !.issued = IF p.type \in {"ACTIVATE", "PRECHARGE", "REFRESH"} THEN @
                         ELSE Append(@, p.id),
              !.cmdBus = {[packet |-> p, left |-> Timing.tCMD]}],
           "command bus", d.cmdBus = {})

Issue(got) == IF got.packet = {} THEN got.d ELSE Send(got.d, CHOOSE p \in got.packet : TRUE)

hasRoomFor(d, n, t) == CMD_QUEUE_DEPTH - Len(getCommandQueue(d, t.rank, t.bank)) >= n

AccessType(t) ==
    IF ini.page = "OpenPage" THEN (IF t.write THEN "WRITE" ELSE "READ")
    ELSE (IF t.write THEN "WRITE_P" ELSE "READ_P")

Packet(type, id) ==
    [type |-> type, id |-> id, rank |-> trans[id].rank, bank |-> trans[id].bank,
     row |-> trans[id].row, addr |-> trans[id]]

\* CommandQueue::enqueue, of two packets: hasRoomFor has been asked.
enqueue(d, t, packets) == [d EXCEPT !.queues[t.rank][QueueOf(t.bank)] = @ \o packets]

\* The oldest transaction with room in its command queue becomes two commands.
Schedule(d) ==
    LET able == {i \in DOMAIN d.transactionQueue : hasRoomFor(d, 2, trans[d.transactionQueue[i]])}
        i  == Least(able)
        id == d.transactionQueue[i]
        t  == trans[id]
    IN  IF able = {} THEN d
        ELSE [enqueue(d, t, <<Packet("ACTIVATE", id), Packet(AccessType(t), id)>>) EXCEPT
                       !.transactionQueue = Without(@, i),
                       !.pendingReads = IF t.write THEN @ ELSE Append(@, id)]

Quiet(d, r) == (\A b \in Banks : d.queues[r][b] = <<>>) /\ ~d.rank[r].refreshWaiting

\* USE_LOW_POWER: an idle rank is powered down, and up again for work.
Power(d, r) ==
    LET quiet == Quiet(d, r)
        all(s) == [b \in Banks |-> [d.bank[r][b] EXCEPT !.state = s]]
        rankAll(s) == [b \in Banks |-> [d.rank[r].bank[b] EXCEPT !.state = s]]
    IN  IF quiet /\ \A b \in Banks : d.bank[r][b].state = "Idle"
        THEN Failed([d EXCEPT !.powerDown[r] = TRUE, !.powerUp[r] = Timing.tCKE,
                              !.bank[r] = all("PowerDown"),
                              !.rank[r].powerUp = Timing.tCKE,
                              !.rank[r].bank = rankAll("PowerDown")],
                    "power down", \A b \in Banks : d.rank[r].bank[b].state = "Idle")
        ELSE IF ~quiet /\ d.powerDown[r] /\ d.powerUp[r] = 0
        THEN Failed([d EXCEPT !.powerDown[r] = FALSE,
                              !.bank[r] = [b \in Banks |-> [all("Idle")[b] EXCEPT !.nextActivate = Timing.tXP]],
                              !.rank[r].bank =
                                  [b \in Banks |-> [rankAll("Idle")[b] EXCEPT !.nextActivate = Timing.tXP]]],
                    "power up", d.rank[r].powerUp = 0)
        ELSE d

\* One read returns to the CPU: the oldest pending one with its address.
Return(d) ==
    LET addr == Head(d.returns).addr
        same == {i \in DOMAIN d.pendingReads : trans[d.pendingReads[i]] = addr}
    IN  IF d.returns = <<>> THEN d
        ELSE IF same = {} THEN Failed(d, "no matching read", FALSE)
        ELSE [d EXCEPT !.returns = Tail(@), !.done = @ \cup {d.pendingReads[Least(same)]},
                       !.pendingReads = Without(@, Least(same))]

-----------------------------------------------------------------------------
\* step(): the clocks of the controller and the ranks, and the refresh counters.
Clock(d) ==
    LET pass(s) == [s EXCEPT !.nextRead = Passed(@), !.nextWrite = Passed(@),
                             !.nextActivate = Passed(@), !.nextPrecharge = Passed(@)]
    IN  [d EXCEPT !.bank = [r \in Ranks |-> [b \in Banks |-> pass(@[r][b])]],
                  !.powerUp = [r \in Ranks |-> Passed(@[r])],
                  !.refreshCountdown = [r \in Ranks |-> @[r] - 1],
                  !.rank = [r \in Ranks |->
                              [@[r] EXCEPT !.powerUp = Passed(@),
                                           !.bank = [b \in Banks |-> pass(@[b])]]]]

\* f applied for every rank in turn.
EachRank(d, f(_, _)) ==
    LET upTo[n \in 0 .. NUM_RANKS] == IF n = 0 THEN d ELSE f(upTo[n - 1], n - 1)
    IN  upTo[NUM_RANKS]

\* MemorySystem::update.  (Each part is bound to its one value.)
update ==
    /\ \E ranks \in {EachRank(dram, RankUpdate)} :
       \E banks \in {UpdateBanks(ranks)} :
       \E buses \in {Refresh(DataBus(CommandBus(banks)))} :
       \E issue \in {Issue(pop(buses))} :
       \E work  \in {EachRank(Schedule(issue), Power)} :
          dram' = Clock(Return(work))
    /\ UNCHANGED <<ini, trans>>

\* MemorySystem::addTransaction.  The caller (Cache::process_evict and the rest)
\* asks willAcceptTransaction first, so pendingTransactions is never used.
acceptTransaction(t) ==
    /\ Len(dram.transactionQueue) < TRANS_QUEUE_DEPTH
    /\ \E w \in Bursts : Len(trans) < Len(w) /\ SubSeq(w, 1, Len(trans) + 1) = Append(trans, t)
    /\ trans = <<>> \/ dram.done # DOMAIN trans     \* bound: one burst
    /\ trans' = Append(trans, t)
    /\ dram' = [dram EXCEPT !.transactionQueue = Append(@, Len(trans) + 1)]
    /\ UNCHANGED ini

Accesses == UNION {{w[i] : i \in DOMAIN w} : w \in Bursts}

DRAMNext == update \/ \E t \in Accesses : acceptTransaction(t)

\* The memory is updated for ever (DRAMSimInterface::process).
DRAMSpec == DRAMInit /\ [][DRAMNext]_dramVars /\ []<><<update>>_dramVars

-----------------------------------------------------------------------------
\* No ERROR of the simulator is reached: every command arrives at its rank when
\* the rank's own timing table allows it, though it was checked against the
\* controller's table tCMD cycles earlier; no bus is taken twice, no rank is
\* powered down or up at the wrong time, and every read returned is pending.
NoProtocolError == dram.errors = {}

\* One driver on the data bus of the channel: a rank that returns a read or the
\* controller that sends write data.  Only the controller's own burst is
\* checked in the code; a rank overwrites a burst it is still sending.
OneDriver ==
    /\ Cardinality({r \in Ranks : dram.rank[r].out # {}}) + Cardinality(dram.dataBus) <= 1
    /\ \A r \in Ranks : \A p \in dram.rank[r].out :
         p.left > 1 => ~(dram.rank[r].reads # <<>> /\ Head(dram.rank[r].reads).left = 1)

\* A refresh is sent before the next rank's replaces it in the command queue.
RefreshKept == dram.refresh # {} => dram.refreshCountdown[dram.refreshRank] > 0

\* Accesses to the same row are sent in the order they were added, whatever is
\* reordered for the sake of open rows, refresh and round robin.
SameRowInOrder ==
    \A i, j \in DOMAIN dram.issued :
        LET a == trans[dram.issued[i]]
            b == trans[dram.issued[j]]
        IN  i < j /\ a.rank = b.rank /\ a.bank = b.bank /\ a.row = b.row
              => dram.issued[i] < dram.issued[j]

\* The devices are driven as their timing demands (no command too early, one
\* driver on the bus, no refresh dropped), and what is reordered for it keeps
\* the order of the accesses to a row.
ProtocolKept == NoProtocolError /\ OneDriver /\ RefreshKept /\ SameRowInOrder

\* Every transaction added is completed.
EveryTransactionDone == []<>(dram.done = DOMAIN trans)
=============================================================================
