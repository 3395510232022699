------------------------------ MODULE AddressSplit ------------------------------
(***************************************************************************)
(* How FunctionalCache splits an address into tag, set and offset, and     *)
(* puts the address of an evicted line together again                      *)
(* (src/mem/FunctionalCache.cpp), on words of W bits instead of 64.  The   *)
(* tag is extract(63, ...), which shifts a 64-bit 1 by 64: undefined in    *)
(* C++.  UBShift is what the build makes of it: 0, the mathematical value  *)
(* modulo 2^64, or 1, when the processor takes the distance modulo 64.     *)
(***************************************************************************)
EXTENDS Integers, Bitwise

CONSTANT W      \* bits of a word

ASSUME WAssumption == W \in Nat \ {0}

VARIABLES address, logLine, logSets, UBShift

splitVars == <<address, logLine, logSets, UBShift>>

Word == 0 .. 2 ^ W - 1

\* (uint64_t)1 << n
ShiftOne(n) == IF n = W THEN UBShift ELSE 2 ^ n

\* Mutant: the mask ends below max.
extract_Exclusive(max, min, a) ==
    LET maxmask == (ShiftOne(max) - 1) % 2 ^ W
        minmask == (ShiftOne(min) - 1) % 2 ^ W
    IN  (a & ((maxmask - minmask) % 2 ^ W)) \div 2 ^ min

extract(max, min, a) ==
    LET maxmask == (ShiftOne(max + 1) - 1) % 2 ^ W
        minmask == (ShiftOne(min) - 1) % 2 ^ W
    IN  (a & ((maxmask - minmask) % 2 ^ W)) \div 2 ^ min

getOffset(a) == extract(logLine - 1, 0, a)
getSetid(a) == extract(logSets - 1 + logLine, logLine, a)
getTag(a) == extract(W - 1, logSets + logLine, a)

\* FunctionalCache::insert, the address of the victim
evictedAddr(tag, setid, offset) ==
    (tag * 2 ^ (logLine + logSets) + setid * 2 ^ logLine + offset) % 2 ^ W

\* Every address, every geometry with lines of at least two bytes and a tag of
\* at least one bit, both outcomes of the shift.  (One-byte lines in a single
\* set are excluded: there the tag is the whole word, and the outcome 1 would
\* give tag 0.)
SplitInit ==
    /\ address \in Word
    /\ logLine \in 1 .. W - 1 /\ logSets \in 0 .. W - 1 - logLine
    /\ UBShift \in {0, 1}

\* Two addresses have the same tag and set exactly when they are in the same
\* line, and the address of an evicted line is an address of that line with the
\* offset it was last used with: the split loses nothing, for a single set
\* too, and whatever the undefined shift gives.
SplitIsExact ==
    /\ getSetid(address) = (address \div 2 ^ logLine) % 2 ^ logSets
    /\ getTag(address) = address \div 2 ^ (logLine + logSets)
    /\ evictedAddr(getTag(address), getSetid(address), getOffset(address)) = address

=============================================================================
