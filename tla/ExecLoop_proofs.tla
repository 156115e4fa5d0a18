--------------------------- MODULE ExecLoop_proofs ---------------------------
(***************************************************************************)
(* What ExecLoop guarantees for every guest program, every set of guest    *)
(* addresses and every size of the translation area.                       *)
(***************************************************************************)
EXTENDS ExecLoop, TLAPS, NaturalsInduction, WellFoundedInduction

\* Every hash entry leads to blocks of the area, and every block of the area
\* is in the chain of its hash entry.
Chains ==
  /\ \A h \in Hashes : \A i \in DOMAIN list[h] : list[h][i] \in Live
  /\ \A h \in Hashes : cached[h] \in Live \cup {Null}
  /\ \A b \in Live :
       /\ tbs[b].guest_pc \in Pcs
       /\ \E i \in DOMAIN list[hash_pc(tbs[b].guest_pc)] :
            list[hash_pc(tbs[b].guest_pc)][i] = b

\* One block per guest pc, none for the pc that is being translated.
Unique ==
  /\ \A b, c \in Live : tbs[b].guest_pc = tbs[c].guest_pc => b = c
  /\ phase = "jit" => \A b \in Live : tbs[b].guest_pc # currentPc

\* Patched exits: towards a later block, the one of the exit's successor.
Links ==
  \A b \in Live : \A q \in Pcs :
    tbs[b].link[q] # Null =>
      /\ tbs[b].link[q] \in Live
      /\ tbs[tbs[b].link[q]].guest_pc = q
      /\ b < tbs[b].link[q]

\* The exit execute came back through stays patchable until a reset.
Pending ==
  /\ phase \in {"top", "run"} => cleaned = 0
  /\ phase \in {"top", "jit", "link"} /\ cleaned = 0 /\ patchArea # NoExit =>
       /\ patchArea.block \in Live
       /\ patchArea.to \in tbs[patchArea.block].exits
       /\ tbs[patchArea.block].link[patchArea.to] = Null
       /\ patchArea.to = currentPc
       /\ phase = "link" => patchArea.block < running

\* The block about to run, or running, is in the area.
Current ==
  /\ phase \in {"link", "run"} => running \in Live
  /\ phase = "link" => tbs[running].guest_pc = currentPc

IInv ==
  /\ TypeOK /\ BlocksDisjoint /\ Chains /\ Unique
  /\ Links /\ Pending /\ Current

-----------------------------------------------------------------------------
\* hash_pc always selects an entry of the tables cached and list.
LEMMA HashType == \A p \in Nat : hash_pc(p) \in Hashes
BY SizeAssumption DEF hash_pc, Hashes

\* The pcs of the guest and the value ~0 are numbers.
LEMMA PcType == /\ Pcs \subseteq Nat
                /\ AllOnes \in Nat /\ AllOnes \notin Pcs
BY PcAssumption

\* No block starts at the end of the area: the pointer Null is not a block.
LEMMA NullNotLive == ASSUME TypeOK, BlocksDisjoint PROVE Null \notin Live
BY SizeAssumption, SMTT(30) DEF TypeOK, BlocksDisjoint, Null, Live, Offsets, Tb

\* The first match of a search in a chain exists as soon as a match does.
LEMMA FirstMatch ==
  ASSUME NEW S \in SUBSET Nat, S # {}
  PROVE  \E j \in S : \A k \in S : j <= k
<1> DEFINE R == {p \in Nat \X Nat : p[1] < p[2]}
<1>1. IsWellFoundedOn(R, Nat)
  BY NatLessThanWellFounded, Zenon DEF OpToRel
<1>2. PICK j \in S : \A k \in S : ~(<<k, j>> \in R)
  <2> HIDE DEF R
  <2> QED BY <1>1, WFMin
<1>3. ASSUME NEW k \in S PROVE j <= k
  <2>1. j \in Nat /\ k \in Nat OBVIOUS
  <2>2. ~(k < j)
    <3>1. ~(<<k, j>> \in R) BY <1>2
    <3>2. k < j => <<k, j>> \in R BY <2>1
    <3> QED BY <3>1, <3>2
  <2> QED BY <2>1, <2>2
<1> QED BY <1>3

\* lookup returns the block of a translated pc, and nothing for another pc.
LEMMA SearchFinds ==
  ASSUME TypeOK, BlocksDisjoint, Chains, Unique
  PROVE  /\ \A b \in Live : Search(tbs[b].guest_pc) = {b}
         /\ \A pc \in Pcs : \A b \in Search(pc) : b \in Live /\ tbs[b].guest_pc = pc
         /\ \A pc \in Pcs : Search(pc) = {} => \A b \in Live : tbs[b].guest_pc # pc
<1>1. ASSUME NEW pc \in Pcs, NEW b \in Search(pc)
      PROVE  b \in Live /\ tbs[b].guest_pc = pc
  <2> DEFINE h == hash_pc(pc)
  <2>1. h \in Hashes BY HashType, PcType
  <2>2. CASE cached[h] # Null /\ tbs[cached[h]].guest_pc = pc
    BY <2>1, <2>2, <1>1 DEF Search, Chains
  <2>3. CASE ~(cached[h] # Null /\ tbs[cached[h]].guest_pc = pc)
    <3>1. PICK i \in DOMAIN list[h] : b = list[h][i] /\ tbs[list[h][i]].guest_pc = pc
      BY <2>3, <1>1 DEF Search
    <3> QED BY <3>1, <2>1 DEF Chains
  <2> QED BY <2>2, <2>3
<1>2. ASSUME NEW b \in Live
      PROVE  Search(tbs[b].guest_pc) # {}
  <2> DEFINE pc == tbs[b].guest_pc
             h == hash_pc(pc)
             chain == {i \in DOMAIN list[h] : tbs[list[h][i]].guest_pc = pc}
  <2>1. h \in Hashes /\ pc \in Pcs BY HashType, PcType DEF Chains
  <2>2. chain # {} BY DEF Chains
  <2>3. chain \in SUBSET Nat BY <2>1 DEF TypeOK
  <2>4. \E j \in chain : \A k \in chain : j <= k
    <3> HIDE DEF chain
    <3> QED BY <2>2, <2>3, FirstMatch
  <2> QED BY <2>4 DEF Search
<1>3. ASSUME NEW b \in Live PROVE Search(tbs[b].guest_pc) = {b}
  <2>1. tbs[b].guest_pc \in Pcs BY DEF Chains
  <2>2. \A c \in Search(tbs[b].guest_pc) : c = b
    BY <2>1, <1>1 DEF Unique
  <2> QED BY <1>2, <2>2
<1> QED BY <1>1, <1>2, <1>3

\* createCache and the start of loop_common establish the invariant.
LEMMA ExecInit == Init => IInv
<1> SUFFICES ASSUME Init PROVE IInv OBVIOUS
<1>1. Live = {} BY DEF Init, Live, Blank
<1>2. TypeOK
  <2>1. Blank \in Tb /\ Null \in Offsets
    BY SizeAssumption DEF Blank, Tb, NoLinks, Null, Offsets
  <2>2. NoExit \in [block : Offsets, to : Pcs \cup {AllOnes}]
    BY <2>1 DEF NoExit, Exit
  <2> QED BY <2>1, <2>2, SizeAssumption DEF Init, TypeOK, Offsets, Phases
<1>3. BlocksDisjoint BY <1>1, SizeAssumption DEF Init, BlocksDisjoint
<1>4. Chains BY <1>1 DEF Init, Chains
<1>5. Unique /\ Links BY <1>1 DEF Unique, Links
<1>6. Pending /\ Current BY DEF Init, Pending, Current
<1> QED BY <1>2, <1>3, <1>4, <1>5, <1>6 DEF IInv

\* A reset leaves no block, so nothing can point into the area.
LEMMA ExecReset ==
  ASSUME TypeOK,
         tbs' = [b \in Offsets |-> Blank], write_pos' = 0,
         cached' = [h \in Hashes |-> Null], list' = [h \in Hashes |-> <<>>]
  PROVE  /\ Live' = {}
         /\ tbs' \in [Offsets -> Tb] /\ write_pos' \in Offsets
         /\ cached' \in [Hashes -> Offsets] /\ list' \in [Hashes -> Seq(Offsets)]
         /\ BlocksDisjoint' /\ Chains' /\ Links'
<1>1. Live' = {} BY DEF Live, Blank
<1>2. Blank \in Tb /\ Null \in Offsets /\ 0 \in Offsets
  BY SizeAssumption DEF Blank, Tb, NoLinks, Null, Offsets
<1>3. BlocksDisjoint' BY <1>1, SizeAssumption DEF BlocksDisjoint
<1>4. Chains' BY <1>1 DEF Chains
<1>5. Links' BY <1>1 DEF Links
<1> QED BY <1>1, <1>2, <1>3, <1>4, <1>5

\* The steps of loop_common and of the blocks that leave the cache alone.
LEMMA ExecSameCache ==
  ASSUME IInv, UNCHANGED cacheVars
  PROVE  /\ BlocksDisjoint' /\ Chains' /\ Links' /\ Live' = Live
BY DEF IInv, cacheVars, BlocksDisjoint, Chains, Links, Live

\* Lookup keeps the invariant: cleaning, hit and miss.
LEMMA ExecLookup == IInv /\ (LookupClean \/ LookupHit \/ LookupMiss) => IInv'
<1>1. ASSUME IInv, LookupClean PROVE IInv'
  <2>1. /\ Live' = {} /\ BlocksDisjoint' /\ Chains' /\ Links' /\ TypeOK'
    <3>1. TypeOK BY <1>1 DEF IInv
    <3> QED BY <1>1, <3>1, ExecReset DEF LookupClean, reset, TypeOK, Phases
  <2>2. Unique' BY <2>1 DEF Unique
  <2>3. Pending' /\ Current' BY <1>1 DEF LookupClean, Pending, Current
  <2> QED BY <2>1, <2>2, <2>3 DEF IInv
<1>2. ASSUME IInv, LookupHit PROVE IInv'
  <2>1. PICK b \in Search(currentPc) : Hit(currentPc, b) /\ running' = b
    BY <1>2 DEF LookupHit
  <2>2. b \in Live /\ tbs[b].guest_pc = currentPc
    BY <1>2, <2>1, SearchFinds DEF IInv, TypeOK
  <2>3. Live' = Live BY <2>1 DEF Hit, Live
  <2>4. NoExit \in [block : Offsets, to : Pcs \cup {AllOnes}]
    BY SizeAssumption DEF NoExit, Exit, Null, Offsets
  <2>5. TypeOK'
    <3>1. b \in Offsets BY <2>2 DEF Live
    <3> QED BY <1>2, <2>1, <2>4, <3>1 DEF IInv, LookupHit, Hit, TypeOK, Phases
  <2>6. BlocksDisjoint' BY <1>2, <2>1, <2>3 DEF IInv, Hit, BlocksDisjoint
  <2>7. Chains' BY <1>2, <2>1, <2>2, <2>3 DEF IInv, TypeOK, Hit, Chains
  <2>8. Unique' /\ Links'
    BY <1>2, <2>1, <2>3 DEF IInv, LookupHit, Hit, Unique, Links
  <2>9. Pending' /\ Current'
    BY <1>2, <2>1, <2>2, <2>3 DEF IInv, LookupHit, Hit, Pending, Current
  <2> QED BY <2>5, <2>6, <2>7, <2>8, <2>9 DEF IInv
<1>3. ASSUME IInv, LookupMiss PROVE IInv'
  <2>1. BlocksDisjoint' /\ Chains' /\ Links' /\ Live' = Live
    BY <1>3, ExecSameCache DEF LookupMiss
  <2>2. TypeOK' BY <1>3 DEF IInv, LookupMiss, cacheVars, TypeOK, Phases
  <2>3. \A b \in Live : tbs[b].guest_pc # currentPc
    BY <1>3, SearchFinds DEF IInv, LookupMiss, TypeOK
  <2>4. Unique' BY <1>3, <2>1, <2>3 DEF IInv, LookupMiss, cacheVars, Unique
  <2>5. Pending' /\ Current'
    BY <1>3, <2>1 DEF IInv, LookupMiss, cacheVars, Pending, Current
  <2> QED BY <2>1, <2>2, <2>4, <2>5 DEF IInv
<1> QED BY <1>1, <1>2, <1>3

\* Leaving a block, a request to clean and the end of the loop.
LEMMA ExecLeave ==
  IInv /\ (Execute \/ CleanRequest \/ Stop \/ \E q \in Pcs : AlternateExit(q)) => IInv'
<1>0. NoExit \in [block : Offsets, to : Pcs \cup {AllOnes}] /\ Null \in Offsets
  BY SizeAssumption DEF NoExit, Exit, Null, Offsets
<1>1. ASSUME IInv, NEW q \in Pcs, Jump(q) PROVE IInv'
  <2>1. BlocksDisjoint' /\ Chains' /\ Links' /\ Live' = Live
    BY <1>1, ExecSameCache DEF Jump
  <2>2. running' \in Live
    BY <1>1 DEF IInv, Jump, Links, Current
  <2>3. TypeOK' BY <1>1, <2>2 DEF IInv, Jump, cacheVars, TypeOK, Live
  <2>4. Unique' BY <1>1, <2>1 DEF IInv, Jump, cacheVars, Unique
  <2>5. Pending' /\ Current'
    BY <1>1, <2>1, <2>2 DEF IInv, Jump, cacheVars, Pending, Current
  <2> QED BY <2>1, <2>3, <2>4, <2>5 DEF IInv
<1>2. ASSUME IInv, NEW q \in Pcs, Return(q) PROVE IInv'
  <2>1. BlocksDisjoint' /\ Chains' /\ Links' /\ Live' = Live
    BY <1>2, ExecSameCache DEF Return
  <2>2. running \in Live /\ running \in Offsets
    BY <1>2 DEF IInv, Return, Current, TypeOK
  <2>3. TypeOK'
    BY <1>0, <1>2, <2>2 DEF IInv, Return, cacheVars, TypeOK, Phases, Exit
  <2>4. Unique' BY <1>2, <2>1 DEF IInv, Return, cacheVars, Unique
  <2>5. Pending' /\ Current'
    BY <1>2, <2>1, <2>2 DEF IInv, Return, cacheVars, Pending, Current, Exit
  <2> QED BY <2>1, <2>3, <2>4, <2>5 DEF IInv
<1>3. ASSUME IInv, NEW q \in Pcs, ReturnIndirect(q) \/ AlternateExit(q) PROVE IInv'
  <2>1. BlocksDisjoint' /\ Chains' /\ Links' /\ Live' = Live
    BY <1>3, ExecSameCache DEF ReturnIndirect, AlternateExit
  <2>2. TypeOK'
    BY <1>0, <1>3 DEF IInv, ReturnIndirect, AlternateExit, cacheVars, TypeOK, Phases
  <2>3. Unique' BY <1>3, <2>1 DEF IInv, ReturnIndirect, AlternateExit, cacheVars, Unique
  <2>4. Pending' /\ Current'
    BY <1>3, <2>1
       DEF IInv, ReturnIndirect, AlternateExit, cacheVars, Pending, Current
  <2> QED BY <2>1, <2>2, <2>3, <2>4 DEF IInv
<1>4. ASSUME IInv, CleanRequest PROVE IInv'
  <2>1. Live' = Live BY <1>4 DEF CleanRequest, Live
  <2>2. TypeOK' BY <1>4 DEF IInv, CleanRequest, TypeOK
  <2>3. BlocksDisjoint' /\ Chains'
    BY <1>4, <2>1 DEF IInv, CleanRequest, BlocksDisjoint, Chains
  <2>4. Unique' /\ Links' BY <1>4, <2>1 DEF IInv, CleanRequest, Unique, Links
  <2>5. Pending' /\ Current'
    BY <1>4, <2>1 DEF IInv, CleanRequest, Pending, Current
  <2> QED BY <2>2, <2>3, <2>4, <2>5 DEF IInv
<1>5. ASSUME IInv, Stop PROVE IInv'
  <2>1. BlocksDisjoint' /\ Chains' /\ Links' /\ Live' = Live
    BY <1>5, ExecSameCache DEF Stop
  <2>2. TypeOK' BY <1>5 DEF IInv, Stop, cacheVars, TypeOK, Phases
  <2>3. Unique' BY <1>5, <2>1 DEF IInv, Stop, cacheVars, Unique
  <2>4. Pending' /\ Current' BY <1>5 DEF IInv, Stop, cacheVars, Pending, Current
  <2> QED BY <2>1, <2>2, <2>3, <2>4 DEF IInv
<1> QED BY <1>1, <1>2, <1>3, <1>4, <1>5 DEF Execute

\* append keeps the invariant when the area has room: the new block starts at
\* write_pos, above every other block.
LEMMA ExecAppend ==
  ASSUME IInv, NEW size \in JitSizes, NEW exits \in ExitSets, append(size, exits)
  PROVE  IInv'
<1> DEFINE new == [size |-> size + TbHeader, guest_pc |-> currentPc,
                   exits |-> exits, link |-> NoLinks]
           h == hash_pc(currentPc)
<1>1. /\ TypeOK /\ size \in Nat /\ TbHeader \in Nat \ {0} /\ exits \in SUBSET Pcs
      /\ AreaSize \in Nat /\ write_pos \in Nat /\ currentPc \in Pcs
      /\ write_pos + size + TbHeader <= AreaSize /\ write_pos \in Offsets
  BY SizeAssumption, PcAssumption DEF IInv, append, Room, TypeOK, Offsets
<1>2. /\ tbs' = [tbs EXCEPT ![write_pos] = new]
      /\ list' = [list EXCEPT ![h] = <<write_pos>> \o list[h]]
      /\ write_pos' = write_pos + size + TbHeader /\ running' = write_pos
  BY <1>1 DEF append, Write, TypeOK
<1>3. h \in Hashes BY <1>1, HashType, PcType
<1>4. new \in Tb /\ new.size > 0 /\ Null \in Offsets
  BY <1>1 DEF Tb, NoLinks, Null, Offsets
<1>5. \A b \in Live : b < write_pos /\ b \in Nat
  <2> SUFFICES ASSUME NEW b \in Live PROVE b < write_pos /\ b \in Nat OBVIOUS
  <2>1. b \in Nat /\ b \in Offsets BY <1>1 DEF Live, Offsets
  <2>2. tbs[b].size \in Nat BY <1>1, <2>1 DEF TypeOK, Tb
  <2>3. tbs[b].size > 0 BY DEF Live
  <2>4. b + tbs[b].size <= write_pos BY DEF IInv, BlocksDisjoint
  <2> QED BY <2>1, <2>2, <2>3, <2>4, <1>1
<1>6. /\ tbs'[write_pos] = new
      /\ \A b \in Offsets : b # write_pos => tbs'[b] = tbs[b]
  BY <1>1, <1>2 DEF TypeOK
<1>7. Live' = Live \cup {write_pos}
  BY <1>1, <1>4, <1>5, <1>6 DEF Live
<1>8. write_pos \notin Live BY <1>1, <1>5
<1>9. TypeOK'
  <2>1. list' \in [Hashes -> Seq(Offsets)]
    BY <1>1, <1>2, <1>3 DEF TypeOK
  <2>2. tbs' \in [Offsets -> Tb] BY <1>1, <1>2, <1>4 DEF TypeOK
  <2>3. write_pos' \in Offsets BY <1>1, <1>2 DEF Offsets
  <2> HIDE DEF new, h
  <2> QED BY <1>1, <1>2, <2>1, <2>2, <2>3 DEF append, TypeOK, Phases
<1>10. BlocksDisjoint'
  <2>1. \A b \in Live : b + tbs[b].size <= write_pos /\ tbs[b].size \in Nat
    BY <1>1 DEF IInv, BlocksDisjoint, Live, TypeOK, Tb
  <2>2. \A b \in Live' : b + tbs'[b].size <= write_pos'
    BY <1>1, <1>2, <1>5, <1>6, <1>7, <2>1 DEF Live
  <2>3. \A b, c \in Live' : b < c => b + tbs'[b].size <= c
    <3> SUFFICES ASSUME NEW b \in Live', NEW c \in Live', b < c
                 PROVE  b + tbs'[b].size <= c
      OBVIOUS
    <3>1. b \in Live BY <1>1, <1>5, <1>7
    <3>2. tbs'[b] = tbs[b] BY <3>1, <1>6, <1>8 DEF Live
    <3>3. CASE c = write_pos BY <3>1, <3>2, <3>3, <2>1
    <3>4. CASE c \in Live BY <3>1, <3>2, <3>4 DEF IInv, BlocksDisjoint
    <3> QED BY <3>3, <3>4, <1>7
  <2> QED BY <2>2, <2>3, <1>1, <1>2 DEF BlocksDisjoint
<1>11. Chains'
  <2>1. \A g \in Hashes : \A i \in DOMAIN list'[g] : list'[g][i] \in Live'
    <3> SUFFICES ASSUME NEW g \in Hashes, NEW i \in DOMAIN list'[g]
                 PROVE  list'[g][i] \in Live'
      OBVIOUS
    <3>1. CASE g # h BY <3>1, <1>1, <1>2, <1>3, <1>7 DEF IInv, Chains, TypeOK
    <3>2. CASE g = h
      <4>1. list'[g] = <<write_pos>> \o list[h] /\ list[h] \in Seq(Offsets)
        BY <3>2, <1>1, <1>2, <1>3 DEF TypeOK
      <4>2. i = 1 \/ (i - 1 \in DOMAIN list[h] /\ list'[g][i] = list[h][i-1])
        BY <4>1
      <4>3. list'[g][1] = write_pos BY <4>1
      <4> QED BY <4>2, <4>3, <1>3, <1>7 DEF IInv, Chains
    <3> QED BY <3>1, <3>2
  <2>2. \A g \in Hashes : cached'[g] \in Live' \cup {Null}
    BY <1>7 DEF IInv, Chains, append
  <2>3. ASSUME NEW b \in Live'
        PROVE  /\ tbs'[b].guest_pc \in Pcs
               /\ \E i \in DOMAIN list'[hash_pc(tbs'[b].guest_pc)] :
                    list'[hash_pc(tbs'[b].guest_pc)][i] = b
    <3> DEFINE g == hash_pc(tbs'[b].guest_pc)
    <3>1. list[h] \in Seq(Offsets) BY <1>1, <1>3 DEF TypeOK
    <3>2. CASE b = write_pos
      <4>1. tbs'[b].guest_pc = currentPc BY <3>2, <1>6
      <4>2. list'[h] = <<write_pos>> \o list[h] BY <1>1, <1>2, <1>3 DEF TypeOK
      <4>3. 1 \in DOMAIN list'[h] /\ list'[h][1] = write_pos BY <3>1, <4>2
      <4> QED BY <4>1, <4>3, <3>2, <1>1
    <3>3. CASE b \in Live
      <4>1. tbs'[b] = tbs[b] /\ tbs[b].guest_pc \in Pcs
        BY <3>3, <1>6, <1>8 DEF Live, IInv, Chains
      <4>2. PICK i \in DOMAIN list[g] : list[g][i] = b
        BY <3>3, <4>1 DEF IInv, Chains
      <4>3. g \in Hashes BY <4>1, HashType, PcType
      <4>4. CASE g # h
        <5>1. list'[g] = list[g] BY <4>3, <4>4, <1>1, <1>2 DEF TypeOK
        <5> QED BY <5>1, <4>1, <4>2
      <4>5. CASE g = h
        <5>1. list'[g] = <<write_pos>> \o list[g]
          BY <4>5, <1>1, <1>2, <1>3 DEF TypeOK
        <5>2. i + 1 \in DOMAIN list'[g] /\ list'[g][i + 1] = b
          <6> HIDE DEF g, h
          <6> QED BY <3>1, <4>2, <4>5, <5>1
        <5> QED BY <5>2, <4>1
      <4> QED BY <4>4, <4>5
    <3> QED BY <3>2, <3>3, <1>7
  <2> QED BY <2>1, <2>2, <2>3 DEF Chains
<1>12. Unique'
  <2>1. \A b \in Live : tbs[b].guest_pc # currentPc BY DEF IInv, Unique, append
  <2>2. \A b \in Live : tbs'[b] = tbs[b] BY <1>6, <1>8 DEF Live
  <2>3. tbs'[write_pos].guest_pc = currentPc BY <1>6
  <2>4. phase' # "jit" BY DEF append
  <2> QED BY <2>1, <2>2, <2>3, <2>4, <1>7 DEF IInv, Unique
<1>13. Links'
  <2> SUFFICES ASSUME NEW b \in Live', NEW q \in Pcs, tbs'[b].link[q] # Null
               PROVE  /\ tbs'[b].link[q] \in Live'
                      /\ tbs'[tbs'[b].link[q]].guest_pc = q
                      /\ b < tbs'[b].link[q]
    BY DEF Links
  <2>1. b # write_pos BY <1>6 DEF NoLinks
  <2>2. b \in Live /\ tbs'[b] = tbs[b] BY <2>1, <1>6, <1>7 DEF Live
  <2>3. /\ tbs[b].link[q] \in Live /\ tbs[tbs[b].link[q]].guest_pc = q
        /\ b < tbs[b].link[q]
    BY <2>2 DEF IInv, Links
  <2> QED BY <2>2, <2>3, <1>6, <1>7, <1>8 DEF Live
<1>14. Pending'
  <2>1. \A b \in Live : tbs'[b] = tbs[b] BY <1>6, <1>8 DEF Live
  <2> HIDE DEF new, h
  <2> QED BY <2>1, <1>2, <1>5, <1>7 DEF IInv, Pending, append
<1>15. Current' BY <1>2, <1>6, <1>7 DEF Current, append
<1> QED BY <1>9, <1>10, <1>11, <1>12, <1>13, <1>14, <1>15 DEF IInv

\* append keeps the invariant when the area is full: the reset drops every
\* block, and with it every patched exit, before the new block is written.
LEMMA ExecAppendFull ==
  ASSUME IInv, NEW size \in JitSizes, NEW exits \in ExitSets, append_full(size, exits)
  PROVE  IInv'
<1> DEFINE new == [size |-> size + TbHeader, guest_pc |-> currentPc,
                   exits |-> exits, link |-> NoLinks]
           h == hash_pc(currentPc)
<1>1. /\ TypeOK /\ size \in Nat /\ TbHeader \in Nat \ {0} /\ exits \in SUBSET Pcs
      /\ AreaSize \in Nat /\ currentPc \in Pcs
      /\ size + TbHeader <= AreaSize /\ 0 \in Offsets
  BY SizeAssumption, PcAssumption DEF IInv, TypeOK, Offsets
<1>2. h \in Hashes BY <1>1, HashType, PcType
<1>3. new \in Tb /\ new.size > 0 /\ Null \in Offsets /\ Blank \in Tb
  BY <1>1 DEF Tb, NoLinks, Null, Offsets, Blank
<1>4. /\ tbs' = [b \in Offsets |-> IF b = 0 THEN new ELSE Blank]
      /\ list' = [g \in Hashes |-> IF g = h THEN <<0>> ELSE <<>>]
      /\ write_pos' = size + TbHeader /\ running' = 0
      /\ cached' = [g \in Hashes |-> Null] /\ clean' = 0
      /\ phase' = "link" /\ cleaned' = 1
      /\ UNCHANGED <<currentPc, prevCurrentPc, patchArea>>
  BY <1>1, <1>2 DEF append_full, Write
<1>5. Live' = {0} BY <1>1, <1>3, <1>4 DEF Live, Blank
<1>6. TypeOK'
  <2>1. write_pos' \in Offsets BY <1>1, <1>4 DEF Offsets
  <2>2. tbs' \in [Offsets -> Tb] BY <1>3, <1>4
  <2>3. list' \in [Hashes -> Seq(Offsets)] BY <1>1, <1>4
  <2> HIDE DEF new, h
  <2> QED BY <1>1, <1>3, <1>4, <2>1, <2>2, <2>3 DEF TypeOK, Phases
<1>7. BlocksDisjoint' BY <1>1, <1>4, <1>5 DEF BlocksDisjoint
<1>8. Chains'
  <2>1. tbs'[0].guest_pc = currentPc BY <1>1, <1>4
  <2>2. list'[h] = <<0>> BY <1>2, <1>4
  <2>3. \A g \in Hashes : \A i \in DOMAIN list'[g] : list'[g][i] = 0
    BY <1>2, <1>4
  <2> HIDE DEF new
  <2> QED BY <1>1, <1>4, <1>5, <2>1, <2>2, <2>3 DEF Chains
<1>9. Unique' BY <1>4, <1>5 DEF Unique
<1>10. Links'
  <2>1. \A q \in Pcs : tbs'[0].link[q] = Null BY <1>1, <1>4 DEF NoLinks
  <2> QED BY <2>1, <1>5 DEF Links
<1>11. Pending' BY <1>4 DEF Pending
<1>12. Current' BY <1>1, <1>4, <1>5 DEF Current
<1> QED BY <1>6, <1>7, <1>8, <1>9, <1>10, <1>11, <1>12 DEF IInv

\* Linking keeps the invariant: the patched exit leads from an older block to
\* the block that append has just written for the exit's successor.
LEMMA ExecLink == ASSUME IInv, Link PROVE IInv'
<1>1. NoExit \in [block : Offsets, to : Pcs \cup {AllOnes}]
  BY SizeAssumption DEF NoExit, Exit, Null, Offsets
<1>2. running \in Live /\ tbs[running].guest_pc = currentPc /\ running \in Offsets
  BY DEF IInv, Link, Current, Live
<1>3. CASE ~WillLink
  <2>1. UNCHANGED <<tbs, write_pos, clean, cached, list>> BY <1>3 DEF Link
  <2>2. BlocksDisjoint' /\ Chains' /\ Links' /\ Live' = Live
    BY <2>1, ExecSameCache DEF cacheVars
  <2>3. TypeOK' BY <1>1, <2>1 DEF IInv, Link, TypeOK, Phases
  <2>4. Unique' BY <2>1, <2>2 DEF IInv, Link, Unique
  <2>5. Pending' /\ Current'
    BY <1>2, <2>1, <2>2 DEF Link, Pending, Current
  <2> QED BY <2>2, <2>3, <2>4, <2>5 DEF IInv
<1>4. CASE WillLink
  <2> DEFINE p == patchArea.block
             to == patchArea.to
  <2>1. /\ p \in Live /\ to \in Pcs /\ tbs[p].link[to] = Null
        /\ to = currentPc /\ p < running /\ p \in Offsets
    BY <1>4 DEF IInv, Link, Pending, WillLink, TypeOK, Live
  <2>2. tbs' = [tbs EXCEPT ![p].link[to] = running] BY <1>4 DEF Link
  <2>3. /\ \A b \in Offsets : b # p => tbs'[b] = tbs[b]
        /\ tbs'[p] = [tbs[p] EXCEPT !.link[to] = running]
    BY <2>1, <2>2 DEF IInv, TypeOK
  <2>4. tbs[p] \in Tb BY <2>1 DEF IInv, TypeOK
  <2>5. /\ tbs'[p].size = tbs[p].size /\ tbs'[p].guest_pc = tbs[p].guest_pc
        /\ tbs'[p].exits = tbs[p].exits
        /\ tbs'[p].link[to] = running
        /\ \A q \in Pcs : q # to => tbs'[p].link[q] = tbs[p].link[q]
        /\ tbs'[p] \in Tb
    BY <1>2, <2>1, <2>3, <2>4 DEF Tb
  <2>6. \A b \in Offsets : /\ tbs'[b].size = tbs[b].size
                           /\ tbs'[b].guest_pc = tbs[b].guest_pc
    BY <2>3, <2>5
  <2>7. Live' = Live BY <2>6 DEF Live
  <2>8. UNCHANGED <<write_pos, clean, cached, list, currentPc, running>> /\ phase' = "run"
    BY DEF Link
  <2>9. TypeOK'
    <3>1. tbs' \in [Offsets -> Tb]
      <4>1. tbs \in [Offsets -> Tb] BY DEF IInv, TypeOK
      <4>2. DOMAIN tbs' = Offsets /\ tbs' = [b \in Offsets |-> tbs'[b]]
        BY <4>1, <2>2
      <4>3. \A b \in Offsets : tbs'[b] \in Tb BY <4>1, <2>3, <2>5
      <4> QED BY <4>2, <4>3
    <3> HIDE DEF p, to
    <3> QED BY <1>1, <2>8, <3>1 DEF IInv, Link, TypeOK, Phases
  <2>10. BlocksDisjoint'
    BY <2>6, <2>7, <2>8 DEF IInv, BlocksDisjoint, Live
  <2>11. Chains'
    BY <2>6, <2>7, <2>8 DEF IInv, Chains, Live
  <2>12. Unique' BY <2>6, <2>7, <2>8 DEF IInv, Unique, Live
  <2>13. Links'
    <3> SUFFICES ASSUME NEW b \in Live, NEW q \in Pcs, tbs'[b].link[q] # Null
                 PROVE  /\ tbs'[b].link[q] \in Live
                        /\ tbs'[tbs'[b].link[q]].guest_pc = q
                        /\ b < tbs'[b].link[q]
      BY <2>7 DEF Links
    <3>1. CASE b = p /\ q = to
      BY <3>1, <1>2, <2>1, <2>5, <2>6
    <3>2. CASE ~(b = p /\ q = to)
      <4>1. tbs'[b].link[q] = tbs[b].link[q] BY <3>2, <2>3, <2>5 DEF Live
      <4>2. /\ tbs[b].link[q] \in Live /\ tbs[tbs[b].link[q]].guest_pc = q
            /\ b < tbs[b].link[q]
        BY <4>1 DEF IInv, Links
      <4> QED BY <4>1, <4>2, <2>6 DEF Live
    <3> QED BY <3>1, <3>2
  <2>14. Pending' BY DEF Link, Pending
  <2>15. Current' BY <1>2, <2>7, <2>8 DEF Current
  <2> QED BY <2>9, <2>10, <2>11, <2>12, <2>13, <2>14, <2>15 DEF IInv
<1> QED BY <1>3, <1>4

\* The invariant is inductive.
LEMMA ExecStep == IInv /\ [Next]_vars => IInv'
<1> SUFFICES ASSUME IInv, [Next]_vars PROVE IInv' OBVIOUS
<1>1. CASE LoopStep
  BY <1>1, ExecLookup, ExecLink, ExecAppend, ExecAppendFull DEF LoopStep
<1>2. CASE Execute \/ CleanRequest \/ Stop \/ \E q \in Pcs : AlternateExit(q)
  BY <1>2, ExecLeave
<1>3. CASE UNCHANGED vars
  <2>1. BlocksDisjoint' /\ Chains' /\ Links' /\ Live' = Live
    BY <1>3, ExecSameCache DEF vars, cacheVars
  <2>2. TypeOK' BY <1>3 DEF IInv, vars, TypeOK
  <2>3. Unique' BY <1>3, <2>1 DEF IInv, vars, Unique
  <2>4. Pending' /\ Current' BY <1>3, <2>1 DEF IInv, vars, Pending, Current
  <2> QED BY <2>1, <2>2, <2>3, <2>4 DEF IInv
<1> QED BY <1>1, <1>2, <1>3 DEF Next

\* The cache and the loop keep the inductive invariant for ever.
THEOREM ExecInvariant == Spec => []IInv
BY ExecInit, ExecStep, PTL DEF Spec

\* The types of the state of the cache and of loop_common.
THEOREM ExecTypeOK == Spec => []TypeOK
<1>1. IInv => TypeOK BY DEF IInv
<1> QED BY <1>1, ExecInvariant, PTL

\* append never writes outside the area nor over a reachable block.
THEOREM ExecBlocksDisjoint == Spec => []BlocksDisjoint
<1>1. IInv => BlocksDisjoint BY DEF IInv
<1> QED BY <1>1, ExecInvariant, PTL

\* lookup finds the one block of every translated guest pc.
THEOREM ExecOneBlockPerPc == Spec => []OneBlockPerPc
<1>1. IInv => OneBlockPerPc
  BY SearchFinds DEF IInv, OneBlockPerPc, Unique
<1> QED BY <1>1, ExecInvariant, PTL

\* patch always finds the ret it asserts (0xc3), in an exit of a live block.
THEOREM ExecPatchHitsExit == Spec => []PatchHitsExit
<1>1. IInv => PatchHitsExit
  BY DEF IInv, PatchHitsExit, Pending, Current, WillLink
<1> QED BY <1>1, ExecInvariant, PTL

\* A patched exit always jumps to the live translation of its successor.
THEOREM ExecLinksReachTheirPc == Spec => []LinksReachTheirPc
<1>1. IInv => LinksReachTheirPc BY DEF IInv, LinksReachTheirPc, Links
<1> QED BY <1>1, ExecInvariant, PTL

\* Patched exits form no loop: they always lead to a block written later.
THEOREM ExecLinksFormNoLoop == Spec => []LinksFormNoLoop
<1>1. IInv => LinksFormNoLoop BY DEF IInv, LinksFormNoLoop, Links
<1> QED BY <1>1, ExecInvariant, PTL
=============================================================================
