-------------------------------- MODULE Tage --------------------------------
(***************************************************************************)
(* The branch predictors (Bpred, TageBranchPredictor) and the way the core *)
(* uses them: a branch is predicted when preprocess delivers it and, if    *)
(* the prediction is right, trains the predictor at once; a mispredicted   *)
(* one trains it when it retires, and holds up preprocess until then.      *)
(*                                                                         *)
(* The program is a pattern of branches <<ip, taken>> repeated for ever.   *)
(* The random number that picks the entry to allocate is any number.       *)
(***************************************************************************)
EXTENDS Integers, Sequences, FiniteSets, Bitwise

CONSTANTS
    Tables,         \* params.tableInfo: a sequence of [nSets, idxBits, histLen, tagBits]
    ctrBits, uBitPeriod, pathHistBits,
    MaxHistLen,     \* kMaxHistLen
    BaseEntries,    \* entries of the base predictor, or of bht
    GhrBits,        \* gshare_global_hist_bits
    Patterns,       \* the programs: [type, branches]
    InFlight        \* bound: branches in the window

ASSUME TageAssumption ==
    /\ \A i \in DOMAIN Tables :
         /\ Tables[i].nSets = 2 ^ Tables[i].idxBits
         /\ Tables[i].tagBits \in 1 .. 16 /\ Tables[i].histLen <= MaxHistLen
    /\ \A p \in Patterns : p.type \in {"onebit", "twobit", "gshare", "tage"} /\ p.branches # <<>>

VARIABLES
    program, place,     \* the pattern and the next branch of it
    window,             \* branches predicted and not retired
    bht, gshare_hist,   \* Bpred; bht is also the table of the base predictor
    T,                  \* the tagged tables
    gHist, pHist, histIndex, histTag,
    altOnNewAlloc, brCtr,
    GI, GTAG, providerComp, altComp, providerPred, altPred  \* the last prediction

lookupVars == <<GI, GTAG, providerComp, altComp, providerPred, altPred>>
historyVars == <<gHist, pHist, histIndex, histTag>>
tageVars == <<program, place, window, bht, gshare_hist, T, altOnNewAlloc, brCtr,
              lookupVars, historyVars>>

nTables == Len(Tables)
TageBanks == 1 .. nTables

LeastUseful(S) == CHOOSE x \in S : \A y \in S : x <= y
AbsCtr(c) == IF 2 * c + 1 < 0 THEN 0 - (2 * c + 1) ELSE 2 * c + 1

SatUp(c, max) == IF c < max THEN c + 1 ELSE c
SatDown(c, min) == IF c > min THEN c - 1 ELSE c

\* ctrUpdate: a signed counter of ctrBits bits.
ctrUpdate(c, actual) ==
    IF actual THEN SatUp(c, 2 ^ (ctrBits - 1) - 1) ELSE SatDown(c, 0 - 2 ^ (ctrBits - 1))

\* The counters of bht and of the base predictor.
Trained(c, actual, max) == IF actual THEN SatUp(c, max) ELSE SatDown(c, 0)

-----------------------------------------------------------------------------
(* folded_history: a history of olen outcomes in clen bits *)

Bit(b) == IF b THEN 1 ELSE 0

\* folded_history::update; h is the history after the new outcome.
fold(comp, olen, clen, h) ==
    LET c1 == 2 * comp + Bit(h[1])
        c2 == c1 ^^ (Bit(h[olen + 1]) * 2 ^ (olen % clen))
    IN  (c2 ^^ (c2 \div 2 ^ clen)) % 2 ^ clen

TagLen(i, j) == Tables[i].tagBits - j       \* of histTag[j][i]

\* updateHistory
updateHistory(actual, ip) ==
    LET h == SubSeq(<<actual>> \o gHist, 1, MaxHistLen + 1) IN
    /\ gHist' = h
    /\ pHist' = (2 * pHist + (ip % 2)) % 2 ^ pathHistBits
    /\ histIndex' = [i \in TageBanks |-> fold(histIndex[i], Tables[i].histLen, Tables[i].idxBits, h)]
    /\ histTag' = [j \in {0, 1} |-> [i \in TageBanks |->
                     fold(histTag[j][i], Tables[i].histLen, TagLen(i, j), h)]]

-----------------------------------------------------------------------------
(* gIndex and gTag *)

\* F: the path history, folded and rotated by the number of the bank.
F(a, size, bank, bits) ==
    LET sh == bank % bits
        rotate(x) == ((x * 2 ^ sh) % 2 ^ bits) + (x \div 2 ^ (bits - sh))
        low == a % 2 ^ size
    IN  rotate((low % 2 ^ bits) ^^ rotate(low \div 2 ^ bits))

gIndex(ip, b) ==
    LET bits == Tables[b].idxBits
        raw == bits - (nTables - b - 1)
        shift == IF raw > 0 /\ raw < 64 THEN raw ELSE 0
        len == IF Tables[b].histLen < 16 THEN Tables[b].histLen ELSE 16
    IN  (((ip ^^ (ip \div 2 ^ shift)) ^^ histIndex[b]) ^^ F(pHist, len, b, bits)) % Tables[b].nSets

gTag(ip, b) == ((ip ^^ histTag[0][b]) ^^ (2 * histTag[1][b])) % 2 ^ Tables[b].tagBits

-----------------------------------------------------------------------------
(* TageBranchPredictor::predict *)

BasePred(ip) == bht[ip % BaseEntries] >= 2

Indices(ip) == [b \in TageBanks |-> gIndex(ip, b)]
Tags(ip) == [b \in TageBanks |-> gTag(ip, b)]

\* What a prediction for ip finds: [GI, GTAG, provider, alt, pred, altPred].
Lookup(ip, gi, gt) ==
    LET entry(b) == T[b][gi[b]]
        hits == {b \in TageBanks : entry(b).tag = gt[b]}
        highest(S) == IF S = {} THEN 0 ELSE CHOOSE b \in S : \A c \in S : c <= b
        provider == highest(hits)
        alt == highest({b \in hits : b < provider /\ (altOnNewAlloc < 0 \/ AbsCtr(entry(b).ctr) > 1)})
        ap == IF alt > 0 THEN entry(alt).ctr >= 0 ELSE BasePred(ip)
        own == altOnNewAlloc < 0 \/ AbsCtr(entry(provider).ctr) > 1 \/ entry(provider).uCtr # 0
    IN  [GI |-> gi, GTAG |-> gt, provider |-> provider, alt |-> alt, altPred |-> ap,
         pred |-> IF provider > 0 /\ own THEN entry(provider).ctr >= 0 ELSE ap]

tage_predict(l) ==
    /\ GI' = l.GI /\ GTAG' = l.GTAG
    /\ providerComp' = l.provider /\ altComp' = l.alt
    /\ providerPred' = l.pred /\ altPred' = l.altPred

-----------------------------------------------------------------------------
(* TageBranchPredictor::allocate and update, after a lookup l *)

\* Only an entry that is not known to be useful may be taken.
AllocCandidates(t, l) == {b \in TageBanks : b > l.provider /\ t[b][l.GI[b]].uCtr = 0}

\* The state of the tables and of altOnNewAlloc after allocate; r picks the entry.
Allocations(l, actual) ==
    LET mine == T[l.provider][l.GI[l.provider]]
        longest == mine.ctr >= 0
        fresh == l.provider > 0 /\ AbsCtr(mine.ctr) <= 1
        alloc == /\ l.pred # actual /\ l.provider < nTables
                 /\ ~(fresh /\ longest = actual)
        aona == IF fresh /\ longest # l.altPred
                THEN IF l.altPred = actual THEN SatUp(altOnNewAlloc, 7) ELSE SatDown(altOnNewAlloc, -8)
                ELSE altOnNewAlloc
        longer == {b \in TageBanks : b > l.provider}
        useful == LeastUseful({3} \cup {T[b][l.GI[b]].uCtr : b \in longer})
        aged == [b \in TageBanks |-> IF b \in longer /\ useful > 0
                                 THEN [T[b] EXCEPT ![l.GI[b]].uCtr = SatDown(@, 0)] ELSE T[b]]
        new(b) == [ctr |-> IF actual THEN 0 ELSE -1, tag |-> l.GTAG[b], uCtr |-> 0]
    IN  IF ~alloc THEN {<<T, aona>>}
        ELSE IF AllocCandidates(aged, l) = {} THEN {<<aged, aona>>}
        ELSE {<<[aged EXCEPT ![b][l.GI[b]] = new(b)], aona>> : b \in AllocCandidates(aged, l)}

Useful(e, l, actual) ==
    IF l.pred = l.altPred THEN e.uCtr
    ELSE IF l.pred = actual THEN SatUp(e.uCtr, 3) ELSE SatDown(e.uCtr, 0)

TrainBase(ip, actual) == [bht EXCEPT ![ip % BaseEntries] = Trained(@, actual, 3)]

\* The tables once the provider, or what stands in for it, is trained.
TrainProvider(t, l, actual) ==
    LET e == t[l.provider][l.GI[l.provider]]
        t1 == [t EXCEPT ![l.provider][l.GI[l.provider]].ctr = ctrUpdate(@, actual)]
        t2 == IF e.uCtr = 0 /\ l.alt > 0
              THEN [t1 EXCEPT ![l.alt][l.GI[l.alt]].ctr = ctrUpdate(@, actual)] ELSE t1
    IN  [t2 EXCEPT ![l.provider][l.GI[l.provider]].uCtr =
            Useful(t2[l.provider][l.GI[l.provider]], l, actual)]

\* uCtrPeriodicReset
AgedEntries(t, n) ==
    IF n % uBitPeriod # 0 THEN t
    ELSE [b \in TageBanks |-> [i \in DOMAIN t[b] |-> [t[b][i] EXCEPT !.uCtr = @ \div 2]]]

tage_update(l, ip, actual) ==
    /\ brCtr' = (brCtr + 1) % uBitPeriod
    /\ \E a \in Allocations(l, actual) :
         /\ T' = AgedEntries(IF l.provider > 0 THEN TrainProvider(a[1], l, actual) ELSE a[1], brCtr + 1)
         /\ altOnNewAlloc' = a[2]
         /\ bht' = IF l.provider = 0 \/ (a[1][l.provider][l.GI[l.provider]].uCtr = 0 /\ l.alt = 0)
                   THEN TrainBase(ip, actual) ELSE bht
    /\ updateHistory(actual, ip)

-----------------------------------------------------------------------------
(* Bpred::predict for the other predictors: predicts and trains. *)

Counter ==
    [onebit |-> [first |-> 1, max |-> 1, taken |-> 1],
     twobit |-> [first |-> 2, max |-> 3, taken |-> 2],
     gshare |-> [first |-> 1, max |-> 3, taken |-> 2]]

bhtIndex(ip) == (IF program.type = "gshare" THEN ip ^^ gshare_hist ELSE ip) % BaseEntries
SimplePred(ip) == bht[bhtIndex(ip)] >= Counter[program.type].taken

simple_predict(ip, actual) ==
    /\ bht' = [bht EXCEPT ![bhtIndex(ip)] = Trained(@, actual, Counter[program.type].max)]
    /\ gshare_hist' = IF program.type = "gshare" THEN (2 * gshare_hist + Bit(actual)) % 2 ^ GhrBits
                      ELSE gshare_hist
    /\ UNCHANGED <<T, altOnNewAlloc, brCtr, lookupVars, historyVars>>

-----------------------------------------------------------------------------
(* The core *)

TageInit ==
    /\ program \in Patterns /\ place = 1 /\ window = <<>>
    /\ bht = [i \in 0 .. BaseEntries - 1 |->
                IF program.type = "tage" THEN 2 ELSE Counter[program.type].first]
    /\ gshare_hist = 0
    /\ T = [b \in TageBanks |-> [i \in 0 .. Tables[b].nSets - 1 |-> [ctr |-> 0, tag |-> 0, uCtr |-> 0]]]
    /\ gHist = [i \in 1 .. MaxHistLen + 1 |-> FALSE] /\ pHist = 0
    /\ histIndex = [b \in TageBanks |-> 0] /\ histTag = [j \in {0, 1} |-> [b \in TageBanks |-> 0]]
    /\ altOnNewAlloc = 0 /\ brCtr = 0
    /\ GI = [b \in TageBanks |-> 0] /\ GTAG = [b \in TageBanks |-> 0]
    /\ providerComp = 0 /\ altComp = 0 /\ providerPred = FALSE /\ altPred = FALSE

\* "we stall here until the branch is retired"
HeldUp_TillFinished ==
    window # <<>> /\ window[Len(window)].mispredict /\ ~window[Len(window)].finished
HeldUp == window # <<>> /\ window[Len(window)].mispredict

\* preprocess reaches the next conditional branch.
fetchBranch ==
    /\ ~HeldUp /\ Len(window) < InFlight
    /\ LET ip == program.branches[place][1]
           actual == program.branches[place][2]
           delivered(pred) == Append(window, [ip |-> ip, taken |-> actual, mispredict |-> pred # actual,
                                              finished |-> FALSE])
       IN  IF program.type # "tage"
           THEN simple_predict(ip, actual) /\ window' = delivered(SimplePred(ip))
           ELSE \E gi \in {Indices(ip)} : \E gt \in {Tags(ip)} : \E l \in {Lookup(ip, gi, gt)} :
                  /\ tage_predict(l)
                  /\ window' = delivered(l.pred)
                  /\ IF l.pred = actual THEN tage_update(l, ip, actual)
                     ELSE UNCHANGED <<T, altOnNewAlloc, brCtr, bht, historyVars>>
                  /\ UNCHANGED gshare_hist
    /\ place' = (place % Len(program.branches)) + 1
    /\ UNCHANGED program

\* The oldest branch that is not finished is.
finishBranch ==
    /\ \E n \in DOMAIN window :
         /\ ~window[n].finished
         /\ window' = [window EXCEPT ![n].finished = TRUE]
    /\ UNCHANGED <<program, place, bht, gshare_hist, T, altOnNewAlloc, brCtr, lookupVars, historyVars>>

Last == [GI |-> GI, GTAG |-> GTAG, provider |-> providerComp, alt |-> altComp,
         altPred |-> altPred, pred |-> providerPred]

\* retireInstruction
retireBranch ==
    /\ window # <<>> /\ Head(window).finished
    /\ window' = Tail(window)
    /\ IF program.type = "tage" /\ Head(window).mispredict
       THEN tage_update(Last, Head(window).ip, Head(window).taken)
       ELSE UNCHANGED <<T, altOnNewAlloc, brCtr, bht, historyVars>>
    /\ UNCHANGED <<program, place, gshare_hist, lookupVars>>

TageNext == fetchBranch \/ finishBranch \/ retireBranch

\* Branches finish and retire; nothing is asked of fetch.
TageSpec == TageInit /\ [][TageNext]_tageVars

-----------------------------------------------------------------------------
\* The folded histories are what they stand for: the exclusive or of the pieces of
\* clen outcomes of the last olen, though they are only ever updated by one bit.
Folded(olen, clen) ==
    LET parity(c) == Cardinality({i \in 0 .. olen - 1 : i % clen = c /\ gHist[i + 1]}) % 2
        sum[c \in 0 .. clen] == IF c = 0 THEN 0 ELSE sum[c - 1] + parity(c - 1) * 2 ^ (c - 1)
    IN  sum[clen]

HistoriesFolded ==
    \A b \in TageBanks :
      /\ histIndex[b] = Folded(Tables[b].histLen, Tables[b].idxBits)
      /\ \A j \in {0, 1} : histTag[j][b] = Folded(Tables[b].histLen, TagLen(b, j))

\* A mispredicted branch trains the entries its prediction came from: when it
\* retires, the lookup the predictor remembers is still its own, and the history
\* still the one it was predicted with.
TrainsItsOwnEntries ==
    \A n \in DOMAIN window :
      program.type = "tage" /\ window[n].mispredict =>
        /\ n = Len(window)
        /\ GI = Indices(window[n].ip)
        /\ GTAG = Tags(window[n].ip)
        /\ providerPred # window[n].taken

\* The state kept between the fetch of a branch and its retirement fits the branch
\* that uses it: the folded histories and the remembered lookup.
TrainsOnItsOwnPast == HistoriesFolded /\ TrainsItsOwnEntries
=============================================================================
