--------------------------- MODULE PromptCacheProofs ---------------------------
(***************************************************************************)
(* The index of PromptCache is exact, no prefix is stored twice, what a    *)
(* lookup returns is usable, and the cache implements PromptLru: for any   *)
(* clients, requests, budget, block length and hashes.                     *)
(***************************************************************************)
EXTENDS PromptCache, SequenceTheorems, FiniteSetTheorems, WellFoundedInduction, TLAPS

-----------------------------------------------------------------------------
(* The least of some natural numbers. *)
LEMMA MinIsLeast ==
  ASSUME NEW S \in SUBSET Nat, S # {}
  PROVE  Min(S) \in S /\ \A n \in S : Min(S) <= n
<1> DEFINE R == OpToRel(<, Nat)
<1>1. \A a, b \in Nat : a < b => <<a, b>> \in R
  <2>1. R = {ss \in Nat \X Nat : ss[1] < ss[2]}
    BY Zenon DEF OpToRel
  <2> QED
    BY <2>1
<1>2. IsWellFoundedOn(R, Nat)
  BY NatLessThanWellFounded
<1> HIDE DEF R
<1>3. PICK m \in S : \A n \in S : <<n, m>> \notin R
  BY <1>2, WFMin, Zenon
<1>4. ASSUME NEW n \in S PROVE m <= n
  <2>1. n \in Nat /\ m \in Nat
    OBVIOUS
  <2>2. ~(n < m)
    BY <1>1, <1>3, <2>1, Zenon
  <2> QED
    BY <2>1, <2>2
<1> QED
  BY <1>4 DEF Min

(* A prompt's keys: one for each complete block. *)
Blocks(tokens) == Len(tokens) \div Block

LEMMA KeysShape ==
  ASSUME NEW model, NEW tokens \in Seq(Int)
  PROVE  /\ Blocks(tokens) \in Nat
         /\ DOMAIN BlockKeys(model, tokens) = 1 .. Blocks(tokens)
         /\ BlockKeys(model, tokens) = <<>> <=> Blocks(tokens) = 0
         /\ Len(BlockKeys(model, tokens)) = Blocks(tokens)
<1>1. Len(tokens) \in Nat /\ Block \in Nat \ {0}
  BY LenProperties, CacheAssumption
<1>2. Blocks(tokens) \in Nat
  BY <1>1 DEF Blocks
<1> DEFINE hash[d \in 0 .. Blocks(tokens)] ==
             IF d = 0 THEN Seed(model)
             ELSE Chain(hash[d - 1], SubSeq(tokens, (d - 1) * Block + 1, d * Block))
           k == [d \in 1 .. Blocks(tokens) |-> hash[d]]
<1>3. BlockKeys(model, tokens) = k
  BY DEF BlockKeys, Blocks
<1> HIDE DEF hash
<1>4. DOMAIN k = 1 .. Blocks(tokens)
  OBVIOUS
<1> DEFINE R == {k[d] : d \in 1 .. Blocks(tokens)}
<1>5. k \in [1 .. Blocks(tokens) -> R]
  OBVIOUS
<1> HIDE DEF k, R
<1>6. k \in Seq(R) /\ Len(k) = Blocks(tokens)
  <2>1. k \in Seq(R)
    BY <1>2, <1>5, SeqDef
  <2> QED
    BY <1>2, <1>4, <2>1, LenProperties
<1>7. k = <<>> <=> Blocks(tokens) = 0
  BY <1>6, EmptySeq
<1> QED
  BY <1>2, <1>3, <1>4, <1>6, <1>7

-----------------------------------------------------------------------------
(* The index. *)
Under(ids, k) == {id \in ids : k \in Keys(id)}

LEMMA UnlistedProps ==
  ASSUME Indexed, NEW out
  PROVE  /\ DOMAIN Unlisted(out) = {k \in DOMAIN index : Under(DOMAIN slots \ out, k) # {}}
         /\ \A k \in DOMAIN Unlisted(out) : Unlisted(out)[k] = Under(DOMAIN slots \ out, k)
<1> DEFINE left == [k \in DOMAIN index |-> index[k] \ out]
<1>1. \A k \in DOMAIN index : left[k] = Under(DOMAIN slots \ out, k)
  BY DEF Indexed, Under
<1>2. Unlisted(out) = Without(left, {k \in DOMAIN index : left[k] = {}})
  BY DEF Unlisted
<1>3. DOMAIN left = DOMAIN index
  OBVIOUS
<1> HIDE DEF left
<1> QED
  BY <1>1, <1>2, <1>3 DEF Without

(* Every stored entry is found under the deepest key of its tokens. *)
LEMMA ExactFinds ==
  ASSUME Indexed, NEW id \in DOMAIN slots, slots[id].tokens \in Seq(Int)
  PROVE  id \in Exact(slots[id].model, slots[id].tokens)
<1> DEFINE m == slots[id].model
           t == slots[id].tokens
           keys == BlockKeys(m, t)
<1>1. slots[id].keys = keys
  BY DEF Indexed
<1>2. CASE keys = <<>>
  <2>1. id \in short
    BY <1>1, <1>2 DEF Indexed
  <2> QED
    BY <1>2, <2>1 DEF Exact
<1>3. CASE keys # <<>>
  <2>1. /\ Blocks(t) \in Nat /\ DOMAIN keys = 1 .. Blocks(t)
        /\ Len(keys) = Blocks(t) /\ Blocks(t) # 0
    BY <1>3, KeysShape
  <2>2. Last(keys) = keys[Len(keys)] /\ Len(keys) \in DOMAIN keys
    BY <2>1 DEF Last
  <2>3. Last(keys) \in Keys(id)
    BY <1>1, <2>2 DEF Keys
  <2>4. Last(keys) \in DOMAIN index /\ id \in index[Last(keys)]
    BY <2>3 DEF Indexed
  <2> QED
    BY <1>3, <2>4 DEF Exact
<1> QED
  BY <1>2, <1>3

-----------------------------------------------------------------------------
Models == {r.model : r \in Request}
KeyLists == {BlockKeys(m, t) : m \in Models, t \in Seq(Int)}
Entries == [model : Models, tokens : Seq(Int), bytes : Nat, used : Nat, keys : KeyLists]

(* The entries' types; an id is not used twice. *)
Stored ==
  /\ nextId \in Nat /\ tick \in Nat
  /\ slots \in [DOMAIN slots -> Entries]
  /\ DOMAIN slots \subseteq 0 .. nextId - 1

(* A client's boundaries lie in its prompt; it has some while it fills.    *)
InPrompt(c) == 1 .. Len(req[c].prompt)
Results == [model : Models, tokens : Seq(Int)]
ClientTypes ==
  /\ pc \in [Client -> {"idle", "found", "check", "fill"}]
  /\ req \in [Client -> Request \cup {NoRequest}]
  /\ got \in [Client -> Results \cup {NoEntry}]
  /\ due \in [Client -> SUBSET Nat] /\ snaps \in [Client -> SUBSET Nat]
ClientSteps ==
  \A c \in Client :
    /\ pc[c] # "idle" => req[c] \in Request
    /\ pc[c] # "found" => got[c] = NoEntry
    /\ pc[c] \in {"idle", "found"} => snaps[c] = {}
    /\ pc[c] = "check" => due[c] \subseteq InPrompt(c)
    /\ pc[c] \in {"check", "fill"} => snaps[c] \subseteq InPrompt(c)
    /\ pc[c] = "fill" => snaps[c] # {}

StoreInv == Stored /\ Indexed /\ NoDuplicates
ClientInv == ClientTypes /\ ClientSteps /\ FoundIsUsable
CacheInv == StoreInv /\ ClientInv

-----------------------------------------------------------------------------
(* The store. *)
LEMMA TouchKeeps ==
  ASSUME StoreInv, NEW id \in DOMAIN slots, Touch(id), UNCHANGED <<index, short, nextId>>
  PROVE  StoreInv'
<1> USE DEF StoreInv
<1>1. slots[id] \in Entries /\ Now \in Nat /\ tick' = Now
  BY DEF Stored, Touch, Now
<1>2. [slots[id] EXCEPT !.used = Now] \in Entries
  BY <1>1 DEF Entries
<1>3. /\ DOMAIN slots' = DOMAIN slots /\ slots' \in [DOMAIN slots -> Entries]
      /\ slots' = [slots EXCEPT ![id] = [slots[id] EXCEPT !.used = Now]]
  BY <1>1, <1>2 DEF Stored, Touch
<1>4. ASSUME NEW j \in DOMAIN slots
      PROVE  /\ slots'[j].model = slots[j].model /\ slots'[j].tokens = slots[j].tokens
             /\ slots'[j].keys = slots[j].keys
  BY <1>1, <1>3 DEF Stored, Entries
<1>5. Stored'
  BY <1>1, <1>3 DEF Stored
<1>6. \A j \in DOMAIN slots : Keys(j)' = Keys(j)
  BY <1>4 DEF Keys
<1>7. Indexed'
  BY <1>3, <1>4, <1>6 DEF Indexed
<1>8. NoDuplicates'
  BY <1>3, <1>4 DEF NoDuplicates
<1> QED
  BY <1>5, <1>7, <1>8

(* A new entry: nothing of the victims is left in the index, the entry is  *)
(* listed under all of its keys, and was not there before.                 *)
LEMMA StoreKeeps ==
  ASSUME StoreInv, NEW m \in Models, NEW t \in Seq(Int), NEW charge \in Nat,
         Exact(m, t) = {}, Store(m, t, charge)
  PROVE  StoreInv'
<1> USE DEF StoreInv
<1> DEFINE out == Victims(charge)
           keys == BlockKeys(m, t)
           K == {keys[d] : d \in DOMAIN keys}
           kept == DOMAIN slots \ out
           entry == [model |-> m, tokens |-> t, bytes |-> charge, used |-> Now, keys |-> keys]
<1>0. PICK new : new = nextId
  OBVIOUS
<1>1. nextId \in Nat /\ new \notin DOMAIN slots /\ Now \in Nat
  BY <1>0 DEF Stored, Now
<1>2. /\ tick' = Now /\ nextId' = nextId + 1
      /\ index' = Listed(Unlisted(out), new, keys)
      /\ short' = (short \ out) \cup (IF keys = <<>> THEN {new} ELSE {})
  BY <1>0 DEF Store
<1>3. slots' = [id \in kept \cup {new} |-> IF id = new THEN entry ELSE slots[id]]
  BY <1>0 DEF Store, Without
<1>4. entry \in Entries
  <2>1. keys \in KeyLists
    BY DEF KeyLists
  <2> HIDE DEF keys
  <2> QED
    BY <1>1, <2>1 DEF Entries
<1> HIDE DEF entry
<1>5. /\ DOMAIN slots' = kept \cup {new} /\ slots'[new] = entry
      /\ \A id \in kept : slots'[id] = slots[id]
  BY <1>1, <1>3
<1>6. entry.model = m /\ entry.tokens = t /\ entry.keys = keys
  BY DEF entry
<1>7. Stored'
  <2>1. slots' \in [DOMAIN slots' -> Entries]
    BY <1>3, <1>4, <1>5 DEF Stored
  <2> QED
    BY <1>0, <1>1, <1>2, <1>5, <2>1 DEF Stored
<1>8. /\ Keys(new)' = K
      /\ \A id \in kept : Keys(id)' = Keys(id)
  BY <1>5, <1>6 DEF Keys
<1>9. /\ DOMAIN Unlisted(out) = {k \in DOMAIN index : Under(kept, k) # {}}
      /\ \A k \in DOMAIN Unlisted(out) : Unlisted(out)[k] = Under(kept, k)
  BY UnlistedProps
<1>10. /\ DOMAIN index' = DOMAIN Unlisted(out) \cup K
       /\ \A k \in DOMAIN index' :
            index'[k] = (IF k \in DOMAIN Unlisted(out) THEN Unlisted(out)[k] ELSE {})
                          \cup (IF k \in K THEN {new} ELSE {})
  <2> DEFINE u == Unlisted(out)
             x == Listed(u, new, keys)
  <2>1. index' = x
    BY <1>2
  <2>2. /\ DOMAIN x = DOMAIN u \cup K
        /\ \A k \in DOMAIN x :
             x[k] = (IF k \in DOMAIN u THEN u[k] ELSE {}) \cup (IF k \in K THEN {new} ELSE {})
    <3> HIDE DEF u, keys
    <3> QED
      BY DEF Listed
  <2> HIDE DEF x, u
  <2> QED
    BY <2>1, <2>2 DEF u
<1> HIDE DEF out, K, keys
<1>11. \A k : k \in DOMAIN index' <=> k \in K \/ \E id \in kept : k \in Keys(id)
  <2>1. \A k : (\E id \in kept : k \in Keys(id)) <=> Under(kept, k) # {}
    BY DEF Under
  <2>2. \A k : (\E id \in kept : k \in Keys(id)) => k \in DOMAIN index
    BY DEF Indexed
  <2> QED
    BY <1>9, <1>10, <2>1, <2>2
<1>12. DOMAIN index' = UNION {Keys(id)' : id \in DOMAIN slots'}
  BY <1>5, <1>8, <1>11
<1>13. ASSUME NEW k \in DOMAIN index'
       PROVE  index'[k] = {id \in DOMAIN slots' : k \in Keys(id)'}
  <2>1. (IF k \in DOMAIN Unlisted(out) THEN Unlisted(out)[k] ELSE {}) = Under(kept, k)
    <3>1. CASE k \in DOMAIN Unlisted(out)
      BY <1>9, <3>1
    <3>2. CASE k \notin DOMAIN Unlisted(out)
      <4>1. k \notin DOMAIN index \/ Under(kept, k) = {}
        BY <1>9, <3>2
      <4>2. k \notin DOMAIN index => Under(kept, k) = {}
        BY DEF Under, Indexed
      <4> QED
        BY <3>2, <4>1, <4>2
    <3> QED
      BY <3>1, <3>2
  <2>2. index'[k] = Under(kept, k) \cup (IF k \in K THEN {new} ELSE {})
    BY <1>10, <2>1
  <2> QED
    BY <1>1, <1>5, <1>8, <2>2 DEF Under
<1>14. short' = {id \in DOMAIN slots' : slots'[id].keys = <<>>}
  BY <1>1, <1>2, <1>5, <1>6 DEF Indexed
<1>15. \A id \in DOMAIN slots' : slots'[id].keys = BlockKeys(slots'[id].model, slots'[id].tokens)
  BY <1>5, <1>6 DEF Indexed, keys
<1>16. Indexed'
  BY <1>12, <1>13, <1>14, <1>15 DEF Indexed
<1>17. ASSUME NEW id \in kept PROVE slots[id].model # m \/ slots[id].tokens # t
  <2>1. slots[id].tokens \in Seq(Int)
    BY DEF Stored, Entries
  <2> QED
    BY <2>1, ExactFinds
<1>18. NoDuplicates'
  BY <1>5, <1>6, <1>17 DEF NoDuplicates
<1> QED
  BY <1>7, <1>16, <1>18

LEMMA ClearKeeps ==
  ASSUME StoreInv, Clear
  PROVE  StoreInv'
<1> USE DEF StoreInv
<1>1. DOMAIN slots' = {} /\ slots' \in [{} -> Entries] /\ UNCHANGED <<nextId, tick>>
  BY DEF Clear, Without
<1>2. Stored' /\ NoDuplicates'
  BY <1>1 DEF Stored, NoDuplicates
<1>3. DOMAIN index' = {}
  <2>1. index' = Unlisted(DOMAIN slots)
    BY DEF Clear
  <2>2. \A k : Under(DOMAIN slots \ DOMAIN slots, k) = {}
    BY DEF Under
  <2> QED
    BY <2>1, <2>2, UnlistedProps
<1>4. short' = {}
  BY DEF Clear, Indexed
<1>5. Indexed'
  BY <1>1, <1>3, <1>4 DEF Indexed
<1> QED
  BY <1>2, <1>5

LEMMA StoreFrame ==
  ASSUME StoreInv, UNCHANGED <<slots, index, short, nextId, tick>>
  PROVE  StoreInv'
BY DEF StoreInv, Stored, Indexed, NoDuplicates, Keys

-----------------------------------------------------------------------------
(* A lookup.  Of several usable entries there is a longest one. *)
LEMMA LongestIsOne ==
  ASSUME Stored, NEW ids \in SUBSET DOMAIN slots, ids # {}, NEW maxLen \in Nat,
         \A id \in ids : Len(slots[id].tokens) <= maxLen
  PROVE  /\ Longest(ids) \in ids
         /\ \A j \in ids : Len(slots[j].tokens) <= Len(slots[Longest(ids)].tokens)
<1>1. \A id \in ids : Len(slots[id].tokens) \in 0 .. maxLen
  <2>1. \A id \in ids : slots[id].tokens \in Seq(Int)
    BY DEF Stored, Entries
  <2> QED
    BY <2>1, LenProperties
<1> DEFINE gap(id) == maxLen - Len(slots[id].tokens)
           S == {gap(id) : id \in ids}
<1>2. S \in SUBSET Nat /\ S # {}
  BY <1>1
<1>3. Min(S) \in S /\ \A n \in S : Min(S) <= n
  <2> HIDE DEF S
  <2> QED
    BY <1>2, MinIsLeast
<1>4. PICK id \in ids : gap(id) = Min(S)
  BY <1>3
<1>5. \A j \in ids : Len(slots[j].tokens) <= Len(slots[id].tokens)
  <2>1. \A j \in ids : gap(id) <= gap(j)
    BY <1>3, <1>4
  <2> QED
    BY <1>1, <2>1
<1> QED
  BY <1>5 DEF Longest

LEMMA FindUsable ==
  ASSUME Stored, NoId \notin Nat, NEW r, NEW maxLen \in Nat, Find(r, maxLen) # NoId
  PROVE  /\ Find(r, maxLen) \in DOMAIN slots
         /\ slots[Find(r, maxLen)].model = r.model
         /\ Len(slots[Find(r, maxLen)].tokens) <= maxLen
         /\ IsPrefix(slots[Find(r, maxLen)].tokens, r.prompt)
<1> DEFINE c == Candidates(r, maxLen)
<1>1. PICK ids : c = Usable(ids, r, maxLen)
  BY Zenon DEF Candidates
<1>2. c # {} /\ Find(r, maxLen) = Longest(c)
  BY DEF Find
<1> HIDE DEF c
<1>3. c \in SUBSET DOMAIN slots /\ \A id \in c : Len(slots[id].tokens) <= maxLen
  BY <1>1 DEF Usable
<1>4. Longest(c) \in c
  BY <1>2, <1>3, LongestIsOne
<1>5. Find(r, maxLen) \in Usable(ids, r, maxLen)
  BY <1>1, <1>2, <1>4
<1> QED
  BY <1>5 DEF Usable

LEMMA LookupKeeps ==
  ASSUME CacheInv, NEW c \in Client, NEW r \in Request, Lookup(c, r)
  PROVE  CacheInv'
<1> USE DEF CacheInv
<1> DEFINE maxLen == Len(r.prompt) - 1
           id == IF maxLen < MinTokens THEN NoId ELSE Find(r, maxLen)
<1>1. r.prompt \in Seq(Int) /\ Len(r.prompt) \in Nat /\ Len(r.prompt) > 0
  <2>1. r.prompt \in Seq(Int) /\ r.prompt # <<>>
    BY CacheAssumption
  <2> DEFINE q == r.prompt
  <2> HIDE DEF q
  <2>2. q \in Seq(Int) /\ q # <<>>
    BY <2>1 DEF q
  <2>3. Len(q) \in Nat /\ Len(q) > 0
    BY <2>2, EmptySeq, LenProperties
  <2> QED
    BY <2>1, <2>3 DEF q
<1>2. /\ pc[c] = "idle" /\ pc' = [pc EXCEPT ![c] = "found"] /\ req' = [req EXCEPT ![c] = r]
      /\ UNCHANGED <<index, short, nextId, due, snaps>>
      /\ IF id = NoId THEN UNCHANGED <<got, slots, tick>>
         ELSE Touch(id) /\ got' = [got EXCEPT ![c] = Found(id)]
  BY DEF Lookup
<1>3. maxLen \in Nat /\ MinTokens \in Nat
  BY <1>1, CacheAssumption
<1>4. CASE id = NoId
  <2>1. StoreInv'
    BY <1>2, <1>4, StoreFrame
  <2>2. ClientTypes' /\ ClientSteps'
    BY <1>2, <1>4 DEF ClientInv, ClientTypes, ClientSteps, InPrompt
  <2>3. FoundIsUsable'
    BY <1>2, <1>4 DEF ClientInv, ClientTypes, ClientSteps, FoundIsUsable
  <2> QED
    BY <2>1, <2>2, <2>3 DEF ClientInv
<1>5. CASE id # NoId
  <2>1. id = Find(r, maxLen) /\ Find(r, maxLen) # NoId
    BY <1>5
  <2>2. /\ id \in DOMAIN slots /\ slots[id].model = r.model
        /\ Len(slots[id].tokens) <= maxLen /\ IsPrefix(slots[id].tokens, r.prompt)
    BY <1>3, <2>1, FindUsable, CacheAssumption DEF StoreInv
  <2>3. slots[id].tokens \in Seq(Int) /\ Len(slots[id].tokens) \in Nat
    BY <2>2, LenProperties DEF StoreInv, Stored, Entries
  <2> DEFINE e == Found(id)
  <2>4. Touch(id) /\ got' = [got EXCEPT ![c] = e]
    BY <1>2, <1>5
  <2>5. /\ e \in Results /\ e.model = r.model
        /\ Len(e.tokens) < Len(r.prompt) /\ IsPrefix(e.tokens, r.prompt)
    <3>1. e.model = slots[id].model /\ e.tokens = slots[id].tokens
      BY DEF Found
    <3>2. e \in Results
      BY <2>2, <2>3 DEF Found, Results, Models
    <3> HIDE DEF id, e
    <3> QED
      BY <1>1, <2>2, <2>3, <3>1, <3>2
  <2> HIDE DEF id, e
  <2>6. StoreInv'
    BY <1>2, <2>2, <2>4, TouchKeeps
  <2>7. ClientTypes' /\ ClientSteps'
    BY <1>2, <2>4, <2>5 DEF ClientInv, ClientTypes, ClientSteps, InPrompt
  <2>8. FoundIsUsable'
    BY <1>2, <2>4, <2>5 DEF ClientInv, ClientTypes, FoundIsUsable
  <2> QED
    BY <2>6, <2>7, <2>8 DEF ClientInv
<1> QED
  BY <1>4, <1>5

-----------------------------------------------------------------------------
(* The rest of a request. *)
LEMMA RestoreKeeps ==
  ASSUME CacheInv, NEW c \in Client, NEW restored \in BOOLEAN, Restore(c, restored)
  PROVE  CacheInv'
<1> USE DEF CacheInv
<1>1. /\ pc[c] = "found" /\ pc' = [pc EXCEPT ![c] = "check"]
      /\ restored => got[c] # NoEntry
      /\ got' = [got EXCEPT ![c] = NoEntry]
      /\ UNCHANGED <<slots, index, short, nextId, tick, req, snaps>>
  BY DEF Restore
<1>2. PICK start \in (IF restored THEN {Len(got[c].tokens)} ELSE 0 .. Len(req[c].prompt) - 1) :
        \E bs \in SUBSET Due(c, start) : due' = [due EXCEPT ![c] = bs]
  BY DEF Restore
<1>3. PICK bs \in SUBSET Due(c, start) : due' = [due EXCEPT ![c] = bs]
  BY <1>2
<1>4. req[c].prompt \in Seq(Int) /\ Len(req[c].prompt) \in Nat /\ MinTokens \in Nat \ {0}
  BY <1>1, CacheAssumption, LenProperties DEF ClientInv, ClientSteps
<1>5. start \in Int
  <2>1. CASE restored
    <3>1. got[c].tokens \in Seq(Int)
      BY <1>1, <2>1 DEF ClientInv, ClientTypes, Results
    <3> QED
      BY <1>2, <2>1, <3>1, LenProperties
  <2>2. CASE ~restored
    BY <1>2, <1>4, <2>2
  <2> QED
    BY <2>1, <2>2
<1>6. bs \subseteq InPrompt(c) /\ bs \subseteq Nat
  BY <1>3, <1>4, <1>5 DEF Due, InPrompt
<1>7. StoreInv'
  BY <1>1, StoreFrame
<1>8. ClientTypes' /\ ClientSteps'
  BY <1>1, <1>3, <1>6 DEF ClientInv, ClientTypes, ClientSteps, InPrompt
<1>9. FoundIsUsable'
  BY <1>1 DEF ClientInv, ClientTypes, FoundIsUsable
<1> QED
  BY <1>7, <1>8, <1>9 DEF ClientInv

LEMMA CheckKeeps ==
  ASSUME CacheInv, NEW c \in Client, Check(c)
  PROVE  CacheInv'
<1> USE DEF CacheInv
<1> DEFINE b == Min(due[c])
           ids == Exact(req[c].model, Boundary(c, b))
<1>1. /\ pc[c] = "check" /\ due[c] # {} /\ due' = [due EXCEPT ![c] = @ \ {b}]
      /\ UNCHANGED <<index, short, nextId, pc, req, got>>
  BY DEF Check
<1>2. b \in due[c] /\ due[c] \in SUBSET Nat /\ due[c] \subseteq InPrompt(c)
  BY <1>1, MinIsLeast DEF ClientInv, ClientTypes, ClientSteps
<1>3. \/ UNCHANGED <<slots, tick>> /\ snaps' = [snaps EXCEPT ![c] = @ \cup {b}]
      \/ UNCHANGED snaps /\ \E id \in ids : Touch(id)
  BY DEF Check
<1> HIDE DEF b
<1>4. ids \subseteq DOMAIN slots
  BY DEF Exact
<1> HIDE DEF ids
<1>5. StoreInv'
  <2>1. CASE UNCHANGED <<slots, tick>>
    BY <1>1, <2>1, StoreFrame
  <2>2. ASSUME NEW id \in ids, Touch(id) PROVE StoreInv'
    BY <1>1, <1>4, <2>2, TouchKeeps
  <2> QED
    BY <1>3, <2>1, <2>2
<1>6. snaps' = [snaps EXCEPT ![c] = @ \cup {b}] \/ snaps' = snaps
  BY <1>3
<1>7. ClientTypes' /\ ClientSteps'
  BY <1>1, <1>2, <1>6 DEF ClientInv, ClientTypes, ClientSteps, InPrompt
<1>8. FoundIsUsable'
  BY <1>1 DEF ClientInv, FoundIsUsable
<1> QED
  BY <1>5, <1>7, <1>8 DEF ClientInv

(* Continue: the request goes on filling, or is over. *)
LEMMA ContinueKeeps ==
  ASSUME ClientInv, NEW c \in Client, pc[c] \in {"check", "fill"},
         NEW left \in SUBSET snaps[c], Continue(c, left), UNCHANGED <<got, due>>
  PROVE  ClientInv'
<1>1. /\ snaps' = [snaps EXCEPT ![c] = left]
      /\ pc' = [pc EXCEPT ![c] = IF left = {} THEN "idle" ELSE "fill"]
      /\ req' = [req EXCEPT ![c] = IF left = {} THEN NoRequest ELSE @]
  BY DEF Continue
<1>2. ClientTypes'
  BY <1>1 DEF ClientInv, ClientTypes
<1>3. ASSUME NEW d \in Client
      PROVE  /\ d # c => UNCHANGED <<pc[d], req[d], snaps[d]>>
             /\ d = c => /\ snaps'[d] = left
                         /\ pc'[d] = IF left = {} THEN "idle" ELSE "fill"
                         /\ req'[d] = IF left = {} THEN NoRequest ELSE req[d]
  BY <1>1 DEF ClientInv, ClientTypes
<1>4. ClientSteps'
  BY <1>3 DEF ClientInv, ClientSteps, InPrompt
<1>5. FoundIsUsable'
  BY <1>3 DEF ClientInv, FoundIsUsable
<1> QED
  BY <1>2, <1>4, <1>5 DEF ClientInv

LEMMA InsertKeeps ==
  ASSUME CacheInv, NEW c \in Client, NEW charge \in Charge, Insert(c, charge)
  PROVE  CacheInv'
<1> USE DEF CacheInv
<1> DEFINE b == Min(snaps[c])
           t == Boundary(c, b)
           m == req[c].model
<1>1. /\ pc[c] = "fill" /\ Continue(c, snaps[c] \ {b}) /\ UNCHANGED <<got, due>>
      /\ IF Refused(m, t, charge) THEN UNCHANGED <<slots, index, short, bytes, nextId, tick>>
         ELSE Store(m, t, charge)
  BY DEF Insert
<1>2. /\ snaps[c] \in SUBSET Nat /\ snaps[c] # {} /\ snaps[c] \subseteq InPrompt(c)
      /\ req[c] \in Request
  BY <1>1 DEF ClientInv, ClientTypes, ClientSteps
<1>3. b \in 1 .. Len(req[c].prompt)
  BY <1>2, MinIsLeast DEF InPrompt
<1> HIDE DEF b
<1>4. m \in Models /\ t \in Seq(Int) /\ charge \in Nat
  <2> DEFINE p == req[c].prompt
  <2>1. p \in Seq(Int) /\ b \in 1 .. Len(p)
    BY <1>2, <1>3, CacheAssumption
  <2> HIDE DEF p
  <2>2. Len(p) \in Nat /\ \A i \in 1 .. b : p[i] \in Int
    BY <2>1, LenProperties, ElementOfSeq
  <2>3. SubSeq(p, 1, b) \in Seq(Int)
    BY <2>1, <2>2, SubSeqProperties
  <2>4. t \in Seq(Int)
    BY <2>3 DEF p, Boundary
  <2> QED
    BY <1>2, <2>4, CacheAssumption DEF Models
<1> HIDE DEF t, m
<1>5. StoreInv'
  <2>1. CASE Refused(m, t, charge)
    BY <1>1, <2>1, StoreFrame
  <2>2. CASE ~Refused(m, t, charge)
    BY <1>1, <1>4, <2>2, StoreKeeps DEF Refused
  <2> QED
    BY <2>1, <2>2
<1>6. ClientInv'
  BY <1>1, ContinueKeeps
<1> QED
  BY <1>5, <1>6

LEMMA ClientFrame ==
  ASSUME ClientInv, UNCHANGED clientVars
  PROVE  ClientInv'
BY DEF ClientInv, ClientTypes, ClientSteps, FoundIsUsable, InPrompt, clientVars

LEMMA CacheInvariance == Spec => []CacheInv
<1>1. Init => CacheInv
  <2> SUFFICES ASSUME Init PROVE CacheInv
    OBVIOUS
  <2>1. DOMAIN slots = {} /\ DOMAIN index = {} /\ slots \in [{} -> Entries]
    BY DEF Init
  <2>2. StoreInv
    BY <2>1 DEF Init, StoreInv, Stored, Indexed, NoDuplicates
  <2>3. ClientInv
    BY DEF Init, ClientInv, ClientTypes, ClientSteps, FoundIsUsable
  <2> QED
    BY <2>2, <2>3 DEF CacheInv
<1>2. CacheInv /\ [Next]_vars => CacheInv'
  <2> SUFFICES ASSUME CacheInv, [Next]_vars PROVE CacheInv'
    OBVIOUS
  <2>1. CASE Clear
    BY <2>1, ClearKeeps, ClientFrame DEF Clear, CacheInv
  <2>2. ASSUME NEW c \in Client, NEW r \in Request, Lookup(c, r) PROVE CacheInv'
    BY <2>2, LookupKeeps
  <2>3. ASSUME NEW c \in Client, NEW restored \in BOOLEAN, Restore(c, restored) PROVE CacheInv'
    BY <2>3, RestoreKeeps
  <2>4. ASSUME NEW c \in Client, Check(c) PROVE CacheInv'
    BY <2>4, CheckKeeps
  <2>5. ASSUME NEW c \in Client, Checked(c) \/ Abandon(c) PROVE CacheInv'
    <3>1. StoreInv'
      BY <2>5, StoreFrame DEF Checked, Abandon, cacheVars, CacheInv
    <3>2. ClientInv'
      <4>1. pc[c] \in {"check", "fill"} /\ UNCHANGED <<got, due>>
            /\ \E left \in SUBSET snaps[c] : Continue(c, left)
        BY <2>5 DEF Checked, Abandon
      <4> QED
        BY <4>1, ContinueKeeps DEF CacheInv
    <3> QED
      BY <3>1, <3>2 DEF CacheInv
  <2>6. ASSUME NEW c \in Client, NEW charge \in Charge, Insert(c, charge) PROVE CacheInv'
    BY <2>6, InsertKeeps
  <2>7. CASE UNCHANGED vars
    BY <2>7, StoreFrame, ClientFrame DEF vars, clientVars, CacheInv
  <2> QED
    BY <2>1, <2>2, <2>3, <2>4, <2>5, <2>6, <2>7 DEF Next, Step
<1> QED
  BY <1>1, <1>2, PTL DEF Spec

-----------------------------------------------------------------------------
(* A stored entry can be found under every key of its tokens, an evicted   *)
(* one leaves no trace in the index.                                       *)
THEOREM IndexExact == Spec => []Indexed
<1>1. CacheInv => Indexed
  BY DEF CacheInv, StoreInv
<1> QED
  BY CacheInvariance, <1>1, PTL

(* No prefix is stored twice, although find_exact looks under the deepest  *)
(* key only, hashes may collide and others insert between a request's      *)
(* contains and its insert.                                                *)
THEOREM StoredOnce == Spec => []NoDuplicates
<1>1. CacheInv => NoDuplicates
  BY DEF CacheInv, StoreInv
<1> QED
  BY CacheInvariance, <1>1, PTL

(* Whatever the hashes, a lookup returns a proper prefix of the prompt, an *)
(* entry of the request's own model.                                       *)
THEOREM LookupsUsable == Spec => []FoundIsUsable
<1>1. CacheInv => FoundIsUsable
  BY DEF CacheInv, ClientInv
<1> QED
  BY CacheInvariance, <1>1, PTL

(* Subsets of a finite set are reached from the empty one, by one element *)
(* at a time.                                                             *)
LEMMA Subsets ==
  ASSUME NEW S, IsFiniteSet(S), NEW G \in SUBSET (SUBSET S), {} \in G,
         \A T \in SUBSET S : (\A x \in T : T \ {x} \in G) => T \in G
  PROVE  \A T \in SUBSET S : T \in G
<1> SUFFICES ASSUME \E T \in SUBSET S : T \notin G PROVE FALSE OBVIOUS
<1> DEFINE sizes == {Cardinality(T) : T \in {T \in SUBSET S : T \notin G}}
<1>1. \A T \in SUBSET S : IsFiniteSet(T) /\ Cardinality(T) \in Nat
  BY FS_Subset, FS_CardinalityType
<1>2. PICK m \in sizes : \A n \in sizes : m <= n
  <2>1. sizes \in SUBSET Nat /\ sizes # {} BY <1>1
  <2> HIDE DEF sizes
  <2> QED BY <2>1, MinIsLeast
<1>3. PICK T \in SUBSET S : T \notin G /\ Cardinality(T) = m BY <1>2
<1>4. PICK x \in T : T \ {x} \notin G BY <1>3
<1>5. T \ {x} \in SUBSET S BY <1>3
<1>6. Cardinality(T \ {x}) = Cardinality(T) - 1 BY <1>1, <1>4, FS_RemoveElement
<1>7. Cardinality(T \ {x}) \in sizes BY <1>4, <1>5
<1> HIDE DEF sizes
<1> QED BY <1>1, <1>2, <1>3, <1>5, <1>6, <1>7

Pick(T) == CHOOSE x \in T : TRUE

(* What is added for the element picked from each subset. *)
Steps(f, sum, S) ==
  \A T \in SUBSET S : sum[T] = IF T = {} THEN 0 ELSE f[Pick(T)] + sum[T \ {Pick(T)}]

(* A function on the subsets of a finite set may be defined so. *)
LEMMA SumsExist ==
  ASSUME NEW S, IsFiniteSet(S), NEW f, \A x \in S : f[x] \in Nat
  PROVE  \E sum \in [SUBSET S -> Nat] : Steps(f, sum, S)
<1> DEFINE Upto(n) == {T \in SUBSET S : Cardinality(T) <= n}
           Right(sum, T) == sum[T] = IF T = {} THEN 0 ELSE f[Pick(T)] + sum[T \ {Pick(T)}]
           Summed(n) == \E sum \in [Upto(n) -> Nat] : \A T \in Upto(n) : Right(sum, T)
<1>1. \A T \in SUBSET S : IsFiniteSet(T) /\ Cardinality(T) \in Nat
  BY FS_Subset, FS_CardinalityType
<1>2. \A T \in SUBSET S : T # {} =>
        /\ Pick(T) \in T /\ f[Pick(T)] \in Nat
        /\ T \ {Pick(T)} \in SUBSET S
        /\ Cardinality(T \ {Pick(T)}) = Cardinality(T) - 1 /\ Cardinality(T) > 0
  <2> SUFFICES ASSUME NEW T \in SUBSET S, T # {}
               PROVE  /\ Pick(T) \in T /\ f[Pick(T)] \in Nat
                      /\ T \ {Pick(T)} \in SUBSET S
                      /\ Cardinality(T \ {Pick(T)}) = Cardinality(T) - 1 /\ Cardinality(T) > 0
    OBVIOUS
  <2>1. Pick(T) \in T BY DEF Pick
  <2>2. IsFiniteSet(T) /\ Cardinality(T) \in Nat BY <1>1
  <2>3. Cardinality(T \ {Pick(T)}) = Cardinality(T) - 1 BY <2>1, <2>2, FS_RemoveElement
  <2>4. Cardinality(T \ {Pick(T)}) \in Nat BY <1>1
  <2> QED BY <2>1, <2>2, <2>3, <2>4
<1>3. \A T \in SUBSET S : T = {} => Cardinality(T) = 0 BY FS_EmptySet
<1>4. Summed(0)
  <2> DEFINE sum == [T \in Upto(0) |-> 0]
  <2>1. \A T \in Upto(0) : T = {}
    <3> SUFFICES ASSUME NEW T \in Upto(0), T # {} PROVE FALSE OBVIOUS
    <3>1. Cardinality(T) > 0 /\ Cardinality(T) \in Nat /\ Cardinality(T) <= 0 BY <1>1, <1>2
    <3> QED BY <3>1
  <2>2. \A T \in Upto(0) : Right(sum, T) BY <2>1
  <2> QED BY <2>2
<1>5. ASSUME NEW n \in Nat, Summed(n) PROVE Summed(n + 1)
  <2>1. PICK sum \in [Upto(n) -> Nat] : \A T \in Upto(n) : Right(sum, T) BY <1>5
  <2> DEFINE more == [T \in Upto(n + 1) |->
                        IF T = {} THEN 0 ELSE f[Pick(T)] + sum[T \ {Pick(T)}]]
  <2>2. ASSUME NEW T \in Upto(n + 1), T # {}
        PROVE  /\ T \ {Pick(T)} \in Upto(n) /\ T \ {Pick(T)} \in Upto(n + 1)
               /\ more[T] = f[Pick(T)] + sum[T \ {Pick(T)}] /\ more[T] \in Nat
    <3>1. T \ {Pick(T)} \in SUBSET S /\ Cardinality(T \ {Pick(T)}) <= n BY <1>1, <1>2, <2>2
    <3>2. T \ {Pick(T)} \in Upto(n) /\ T \ {Pick(T)} \in Upto(n + 1) BY <3>1, <1>1
    <3>3. sum[T \ {Pick(T)}] \in Nat BY <2>1, <3>2
    <3>4. f[Pick(T)] \in Nat BY <1>2, <2>2
    <3>5. more[T] = f[Pick(T)] + sum[T \ {Pick(T)}] BY <2>2
    <3> QED BY <3>2, <3>3, <3>4, <3>5
  <2>3. ASSUME NEW T \in Upto(n) PROVE T \in Upto(n + 1) /\ more[T] = sum[T]
    <3>1. T \in Upto(n + 1) BY <1>1
    <3>2. Right(sum, T) BY <2>1
    <3> QED BY <3>1, <3>2
  <2>4. more \in [Upto(n + 1) -> Nat]
    <3>1. \A T \in Upto(n + 1) : more[T] \in Nat BY <2>2
    <3> QED BY <3>1
  <2>5. ASSUME NEW T \in Upto(n + 1) PROVE Right(more, T)
    <3>1. CASE T = {} BY <3>1
    <3>2. CASE T # {}
      <4>1. more[T \ {Pick(T)}] = sum[T \ {Pick(T)}] BY <2>2, <2>3, <3>2
      <4> QED BY <2>2, <3>2, <4>1
    <3> QED BY <3>1, <3>2
  <2> HIDE DEF more, Upto
  <2> QED BY <2>4, <2>5
<1>6. \A n \in Nat : Summed(n)
  <2> SUFFICES ASSUME \E n \in Nat : ~Summed(n) PROVE FALSE OBVIOUS
  <2> HIDE DEF Summed
  <2>1. PICK m \in {n \in Nat : ~Summed(n)} : \A k \in {n \in Nat : ~Summed(n)} : m <= k
    <3> DEFINE N == {n \in Nat : ~Summed(n)}
    <3>1. N \in SUBSET Nat /\ N # {} OBVIOUS
    <3> HIDE DEF N
    <3>2. Min(N) \in N /\ \A k \in N : Min(N) <= k BY <3>1, MinIsLeast
    <3> QED BY <3>2 DEF N
  <2>2. m \in Nat /\ m # 0 BY <1>4, <2>1
  <2>3. PICK k \in Nat : m = k + 1 BY <2>2
  <2>4. Summed(k) BY <2>1, <2>3
  <2> QED BY <1>5, <2>1, <2>3, <2>4
<1>7. \A T \in SUBSET S : Cardinality(T) <= Cardinality(S) BY FS_Subset
<1>8. Upto(Cardinality(S)) = SUBSET S BY <1>7
<1>9. Summed(Cardinality(S)) BY <1>1, <1>6
<1> HIDE DEF Upto
<1> QED BY <1>8, <1>9 DEF Steps

(* The sum of f over some of its arguments. *)
Sum(f, T) == MapThenSumSet(LAMBDA x : f[x], T)

(* What such a definition defines is unique. *)
LEMMA StepsAgree ==
  ASSUME NEW S, IsFiniteSet(S), NEW f, NEW g, NEW s, NEW t, NEW U \in SUBSET S,
         Steps(f, s, S), Steps(g, t, U), \A x \in U : f[x] = g[x]
  PROVE  t[U] = s[U]
<1> DEFINE G == {T \in SUBSET U : t[T] = s[T]}
<1>1. IsFiniteSet(U) BY FS_Subset
<1>2. \A T \in SUBSET U : T # {} => Pick(T) \in T BY DEF Pick
<1>3. {} \in G BY DEF Steps
<1>4. ASSUME NEW T \in SUBSET U, \A x \in T : T \ {x} \in G PROVE T \in G
  <2>1. CASE T = {} BY <1>3, <2>1
  <2>2. CASE T # {}
    <3>1. Pick(T) \in T BY <1>2, <2>2
    <3>2. t[T \ {Pick(T)}] = s[T \ {Pick(T)}] BY <1>4, <3>1
    <3>3. f[Pick(T)] = g[Pick(T)] BY <3>1
    <3>4. t[T] = g[Pick(T)] + t[T \ {Pick(T)}] BY <2>2 DEF Steps
    <3>5. s[T] = f[Pick(T)] + s[T \ {Pick(T)}] BY <2>2 DEF Steps
    <3> QED BY <3>2, <3>3, <3>4, <3>5
  <2> QED BY <2>1, <2>2
<1>5. U \in G
  <2> HIDE DEF G
  <2>1. G \in SUBSET SUBSET U BY DEF G
  <2> QED BY <1>1, <1>3, <1>4, <2>1, Subsets
<1> QED BY <1>5

(* A fold over a set is the function so defined, at that set. *)
LEMMA FoldIs ==
  ASSUME NEW S, IsFiniteSet(S), NEW f, \A x \in S : f[x] \in Nat,
         NEW s, Steps(f, s, S), NEW U \in SUBSET S
  PROVE  Sum(f, U) = s[U]
<1> DEFINE value(t) == [T \in SUBSET U |->
                          IF T = {} THEN 0 ELSE f[Pick(T)] + t[T \ {Pick(T)}]]
           t == CHOOSE t : t = value(t)
<1>1. Sum(f, U) = t[U]
  BY DEF Sum, MapThenSumSet, MapThenFoldSet, Pick
<1>2. IsFiniteSet(U) BY FS_Subset
<1>3. PICK u \in [SUBSET U -> Nat] : Steps(f, u, U) BY <1>2, SumsExist
<1>4. u = value(u)
  <2> DEFINE v == value(u)
  <2>1. \A T \in SUBSET U : v[T] = u[T] BY <1>3 DEF Steps
  <2>2. u = [T \in SUBSET U |-> u[T]] /\ v = [T \in SUBSET U |-> v[T]] OBVIOUS
  <2> HIDE DEF v
  <2>3. u = v BY <2>1, <2>2
  <2> QED BY <2>3 DEF v
<1> HIDE DEF value
<1>5. t = value(t) BY <1>4
<1> HIDE DEF t
<1>6. Steps(f, t, U) BY <1>5 DEF Steps, value
<1>7. t[U] = s[U] BY <1>6, StepsAgree
<1> QED BY <1>1, <1>7

(* Sums of natural numbers. *)
Natural(f, S) == IsFiniteSet(S) /\ \A x \in S : f[x] \in Nat

(* A sum is natural and defined by taking an element out at a time. *)
LEMMA SumStep ==
  ASSUME NEW S, NEW f, Natural(f, S)
  PROVE  /\ Sum(f, {}) = 0 /\ Sum(f, S) \in Nat
         /\ S # {} => Sum(f, S) = f[Pick(S)] + Sum(f, S \ {Pick(S)})
<1>1. PICK s \in [SUBSET S -> Nat] : Steps(f, s, S) BY SumsExist DEF Natural
<1>2. \A U \in SUBSET S : Sum(f, U) = s[U] BY <1>1, FoldIs DEF Natural
<1>3. S \ {Pick(S)} \in SUBSET S /\ S \in SUBSET S /\ {} \in SUBSET S OBVIOUS
<1>4. s[{}] = 0 BY <1>1, <1>3 DEF Steps
<1>5. S # {} => s[S] = f[Pick(S)] + s[S \ {Pick(S)}] BY <1>1, <1>3 DEF Steps
<1>6. s[S] \in Nat BY <1>1, <1>3
<1> QED BY <1>2, <1>3, <1>4, <1>5, <1>6

(* A part of a sum is one. *)
LEMMA NaturalPart ==
  ASSUME NEW S, NEW f, Natural(f, S), NEW T \in SUBSET S
  PROVE  Natural(f, T) /\ Sum(f, T) \in Nat
<1>1. Natural(f, T) BY FS_Subset DEF Natural
<1> QED BY <1>1, SumStep

(* Any element may be the one that is taken out. *)
LEMMA SumWithout ==
  ASSUME NEW S, NEW f, Natural(f, S), NEW x \in S
  PROVE  Sum(f, S) = f[x] + Sum(f, S \ {x})
<1> DEFINE G == {T \in SUBSET S : \A y \in T : Sum(f, T) = f[y] + Sum(f, T \ {y})}
<1>1. {} \in G OBVIOUS
<1>2. ASSUME NEW T \in SUBSET S, \A y \in T : T \ {y} \in G PROVE T \in G
  <2> SUFFICES ASSUME NEW y \in T PROVE Sum(f, T) = f[y] + Sum(f, T \ {y}) OBVIOUS
  <2> DEFINE c == Pick(T)
  <2>1. c \in T BY DEF Pick
  <2>2. T # {} /\ Natural(f, T) BY NaturalPart
  <2>3. Sum(f, T) = f[c] + Sum(f, T \ {c}) BY <2>2, SumStep
  <2>4. CASE c = y BY <2>3, <2>4
  <2>5. CASE c # y
    <3>1. y \in T \ {c} /\ c \in T \ {y} BY <2>1, <2>5
    <3>2. Sum(f, T \ {c}) = f[y] + Sum(f, (T \ {c}) \ {y}) BY <1>2, <2>1, <3>1
    <3>3. Sum(f, T \ {y}) = f[c] + Sum(f, (T \ {y}) \ {c}) BY <1>2, <3>1
    <3>4. (T \ {c}) \ {y} = (T \ {y}) \ {c} OBVIOUS
    <3>5. PICK U \in SUBSET S : U = (T \ {c}) \ {y} OBVIOUS
    <3>6. f[y] \in Nat /\ f[c] \in Nat /\ Sum(f, U) \in Nat BY <2>1, <2>2, NaturalPart DEF Natural
    <3>7. PICK a \in Nat, b \in Nat, u \in Nat : a = f[y] /\ b = f[c] /\ u = Sum(f, U) BY <3>6
    <3>8. Sum(f, T) = b + (a + u) BY <2>3, <3>2, <3>5, <3>7
    <3>9. Sum(f, T \ {y}) = b + u BY <3>3, <3>4, <3>5, <3>7
    <3> QED BY <3>7, <3>8, <3>9
  <2> QED BY <2>4, <2>5
<1>3. S \in G
  <2> HIDE DEF G
  <2>1. G \in SUBSET SUBSET S BY DEF G
  <2> QED BY <1>1, <1>2, <2>1, Subsets DEF Natural
<1> QED BY <1>3

(* Only the values in the set matter. *)
LEMMA SumSame ==
  ASSUME NEW S, NEW f, Natural(f, S), NEW g, \A x \in S : g[x] = f[x]
  PROVE  Sum(g, S) = Sum(f, S)
<1>1. Natural(g, S) BY DEF Natural
<1>2. PICK s \in [SUBSET S -> Nat] : Steps(f, s, S) BY SumsExist DEF Natural
<1>3. PICK t \in [SUBSET S -> Nat] : Steps(g, t, S) BY <1>1, SumsExist DEF Natural
<1>4. t[S] = s[S] BY <1>2, <1>3, StepsAgree DEF Natural
<1>5. S \in SUBSET S OBVIOUS
<1>6. Sum(f, S) = s[S] BY <1>2, <1>5, FoldIs DEF Natural
<1>7. Sum(g, S) = t[S] BY <1>1, <1>3, <1>5, FoldIs DEF Natural
<1> QED BY <1>4, <1>6, <1>7

(* What is taken out is subtracted. *)
LEMMA SumSplit ==
  ASSUME NEW S, NEW f, Natural(f, S), NEW U \in SUBSET S
  PROVE  Sum(f, S) = Sum(f, U) + Sum(f, S \ U)
<1> DEFINE G == {T \in SUBSET U : Sum(f, S) = Sum(f, T) + Sum(f, S \ T)}
<1>1. {} \in G
  <2>1. Sum(f, {}) = 0 /\ Sum(f, S) \in Nat /\ S \ {} = S BY SumStep
  <2> QED BY <2>1
<1>2. ASSUME NEW T \in SUBSET U, \A y \in T : T \ {y} \in G PROVE T \in G
  <2>1. CASE T = {} BY <1>1, <2>1
  <2>2. CASE T # {}
    <3>1. PICK y \in T : TRUE BY <2>2
    <3>2. Sum(f, S) = Sum(f, T \ {y}) + Sum(f, S \ (T \ {y})) BY <1>2, <3>1
    <3>3. Natural(f, T) /\ Natural(f, S \ (T \ {y})) /\ y \in S \ (T \ {y}) BY <3>1, NaturalPart
    <3>4. Sum(f, T) = f[y] + Sum(f, T \ {y}) BY <3>1, <3>3, SumWithout
    <3>5. Sum(f, S \ (T \ {y})) = f[y] + Sum(f, (S \ (T \ {y})) \ {y}) BY <3>3, SumWithout
    <3>6. (S \ (T \ {y})) \ {y} = S \ T BY <3>1
    <3>7. f[y] \in Nat /\ Sum(f, T \ {y}) \in Nat /\ Sum(f, S \ T) \in Nat
      <4>1. T \ {y} \in SUBSET S /\ S \ T \in SUBSET S /\ y \in S BY <3>1
      <4> QED BY <4>1, NaturalPart DEF Natural
    <3>8. PICK a \in Nat, b \in Nat, u \in Nat :
            a = f[y] /\ b = Sum(f, T \ {y}) /\ u = Sum(f, S \ T)
      BY <3>7
    <3>9. Sum(f, S) = b + (a + u) BY <3>2, <3>5, <3>6, <3>8
    <3>10. Sum(f, T) = a + b BY <3>4, <3>8
    <3> QED BY <3>8, <3>9, <3>10
  <2> QED BY <2>1, <2>2
<1>3. U \in G
  <2> HIDE DEF G
  <2>1. G \in SUBSET SUBSET U /\ IsFiniteSet(U) BY FS_Subset DEF G, Natural
  <2> QED BY <1>1, <1>2, <2>1, Subsets
<1> QED BY <1>3

(* Numbers from m to n that name the elements of U, and what they carry. *)
Numbers(e, m, n, U) ==
  /\ \A i, j \in m .. n : e[i] = e[j] => i = j
  /\ \A x : x \in U <=> \E i \in m .. n : e[i] = x
Follows(g, f, e, m, n) == \A i \in m .. n : g[i] = f[e[i]]

(* A sum over a range of numbers is one over what they number. *)
LEMMA SumNumbered ==
  ASSUME NEW m \in Nat, NEW n \in Nat, NEW e, NEW f, NEW g,
         NEW U, Numbers(e, m, n, U), Natural(f, U), Follows(g, f, e, m, n)
  PROVE  Natural(g, m .. n) /\ Sum(g, m .. n) = Sum(f, U)
<1> DEFINE N == m .. n
           Of(T) == {e[i] : i \in T}
           G == {T \in SUBSET N : Sum(g, T) = Sum(f, Of(T))}
<1> USE DEF Numbers, Follows
<1>6. Of(N) = U OBVIOUS
<1>0. IsFiniteSet(N)
  <2>1. m \in Int /\ n \in Int OBVIOUS
  <2> QED BY <2>1, FS_Interval
<1>1. Natural(g, N)
  <2>1. \A i \in N : e[i] \in U OBVIOUS
  <2> QED BY <1>0, <2>1 DEF Natural
<1>2. {} \in G
  <2>1. Of({}) = {} OBVIOUS
  <2>2. Sum(g, {}) = 0 /\ Sum(f, {}) = 0 BY <1>1, SumStep
  <2> QED BY <2>1, <2>2
<1>3. ASSUME NEW T \in SUBSET N, \A y \in T : T \ {y} \in G PROVE T \in G
  <2>1. CASE T = {} BY <1>2, <2>1
  <2>2. CASE T # {}
    <3>1. PICK y \in T : TRUE BY <2>2
    <3>2. Sum(g, T \ {y}) = Sum(f, Of(T \ {y})) BY <1>3, <3>1
    <3>3. Of(T \ {y}) = Of(T) \ {e[y]} BY <3>1
    <3>4. Sum(g, T) = g[y] + Sum(g, T \ {y})
      <4>1. Natural(g, T) BY <1>1, NaturalPart
      <4> QED BY <3>1, <4>1, SumWithout
    <3>5. Sum(f, Of(T)) = f[e[y]] + Sum(f, Of(T) \ {e[y]})
      <4>1. Of(T) \in SUBSET Of(N) /\ e[y] \in Of(T) BY <3>1
      <4> HIDE DEF Of
      <4>2. Natural(f, Of(N)) BY <1>6
      <4>3. Natural(f, Of(T)) BY <4>1, <4>2, NaturalPart
      <4> QED BY <4>1, <4>3, SumWithout
    <3>6. g[y] = f[e[y]] BY <3>1
    <3> HIDE DEF Of
    <3> QED BY <3>2, <3>3, <3>4, <3>5, <3>6
  <2> QED BY <2>1, <2>2
<1>4. N \in G
  <2> HIDE DEF G, N
  <2>1. G \in SUBSET SUBSET N BY DEF G
  <2> QED BY <1>0, <1>2, <1>3, <2>1, Subsets
<1> HIDE DEF N, Of
<1>5. Sum(g, N) = Sum(f, U) BY <1>6, <1>4 DEF G
<1> QED BY <1>1, <1>5 DEF N

-----------------------------------------------------------------------------
(* Enumerations: the elements of a finite set by increasing number. *)
Increasing(e, n, u) == \A i, j \in 1 .. n : i < j => u[e[i]] < u[e[j]]
Enumerates(e, S, u) == e \in [1 .. Cardinality(S) -> S] /\ Increasing(e, Cardinality(S), u)
Distinct(u, S) ==
  /\ \A x \in S : u[x] \in Nat
  /\ \A x, y \in S : u[x] = u[y] => x = y

(* The last of some elements. *)
LEMMA LastOne ==
  ASSUME NEW S, IsFiniteSet(S), S # {}, NEW u, \A x \in S : u[x] \in Nat
  PROVE  \E x \in S : \A y \in S : u[y] <= u[x]
<1> DEFINE G == {T \in SUBSET S : T # {} => \E x \in T : \A y \in T : u[y] <= u[x]}
<1>1. {} \in G OBVIOUS
<1>2. ASSUME NEW T \in SUBSET S, \A y \in T : T \ {y} \in G PROVE T \in G
  <2> SUFFICES ASSUME T # {} PROVE \E x \in T : \A y \in T : u[y] <= u[x] OBVIOUS
  <2>1. PICK c \in T : TRUE OBVIOUS
  <2>2. CASE T \ {c} = {}
    <3>1. \A y \in T : y = c BY <2>2
    <3>2. u[c] \in Nat BY <2>1
    <3> QED BY <2>1, <3>1, <3>2
  <2>3. CASE T \ {c} # {}
    <3>1. PICK x \in T \ {c} : \A y \in T \ {c} : u[y] <= u[x] BY <1>2, <2>1, <2>3
    <3>2. u[x] \in Nat /\ u[c] \in Nat BY <2>1
    <3>3. CASE u[c] <= u[x]
      <4>1. \A y \in T : u[y] <= u[x] BY <3>1, <3>3
      <4> QED BY <4>1
    <3>4. CASE ~(u[c] <= u[x])
      <4>1. \A y \in T : u[y] <= u[c]
        <5> SUFFICES ASSUME NEW y \in T PROVE u[y] <= u[c] OBVIOUS
        <5>1. u[y] \in Nat OBVIOUS
        <5>2. CASE y = c BY <3>2, <5>2
        <5>3. CASE y # c
          <6>1. u[y] <= u[x] BY <3>1, <5>3
          <6> QED BY <3>2, <3>4, <5>1, <6>1
        <5> QED BY <5>2, <5>3
      <4> QED BY <2>1, <4>1
    <3> QED BY <3>3, <3>4
  <2> QED BY <2>2, <2>3
<1>3. S \in G
  <2> HIDE DEF G
  <2>1. G \in SUBSET SUBSET S BY DEF G
  <2> QED BY <1>1, <1>2, <2>1, Subsets
<1> QED BY <1>3

(* An element above all others is the next in the enumeration. *)
LEMMA EnumerateNext ==
  ASSUME NEW S, IsFiniteSet(S), NEW x, x \notin S, NEW u,
         \A y \in S : u[y] < u[x], NEW e, Enumerates(e, S, u)
  PROVE  Enumerates([i \in 1 .. Cardinality(S) + 1 |-> IF i <= Cardinality(S) THEN e[i] ELSE x],
                    S \cup {x}, u)
<1>1. PICK n \in Nat : n = Cardinality(S) BY FS_CardinalityType
<1>2. Cardinality(S \cup {x}) = n + 1 BY <1>1, FS_AddElement
<1>3. e \in [1 .. n -> S] /\ Increasing(e, n, u) BY <1>1 DEF Enumerates
<1> DEFINE h == [i \in 1 .. n + 1 |-> IF i <= n THEN e[i] ELSE x]
<1>4. \A i \in 1 .. n : h[i] = e[i] /\ e[i] \in S BY <1>3
<1>5. h[n + 1] = x /\ \A i \in 1 .. n + 1 : i \in 1 .. n \/ i = n + 1 OBVIOUS
<1>6. h \in [1 .. n + 1 -> S \cup {x}]
  <2>1. \A i \in 1 .. n + 1 : h[i] \in S \cup {x} BY <1>4, <1>5
  <2> QED BY <2>1
<1> HIDE DEF h
<1>7. ASSUME NEW i \in 1 .. n + 1, NEW j \in 1 .. n + 1, i < j PROVE u[h[i]] < u[h[j]]
  <2>1. i \in 1 .. n BY <1>7
  <2>2. CASE j \in 1 .. n BY <1>3, <1>4, <1>7, <2>1, <2>2 DEF Increasing
  <2>3. CASE j = n + 1 BY <1>4, <1>5, <2>1, <2>3
  <2> QED BY <1>5, <2>2, <2>3
<1> QED BY <1>1, <1>2, <1>6, <1>7 DEF Enumerates, Increasing, h

(* There is one. *)
LEMMA EnumerationExists ==
  ASSUME NEW S, IsFiniteSet(S), NEW u, Distinct(u, S)
  PROVE  \E e : Enumerates(e, S, u)
<1> DEFINE G == {T \in SUBSET S : \E e : Enumerates(e, T, u)}
<1>1. {} \in G
  <2> DEFINE e == [i \in 1 .. 0 |-> 0]
  <2>1. Cardinality({}) = 0 BY FS_EmptySet
  <2>2. e \in [1 .. 0 -> {}] OBVIOUS
  <2>3. Enumerates(e, {}, u) BY <2>1, <2>2 DEF Enumerates, Increasing
  <2> QED BY <2>3
<1>2. ASSUME NEW T \in SUBSET S, \A y \in T : T \ {y} \in G PROVE T \in G
  <2>1. CASE T = {} BY <1>1, <2>1
  <2>2. CASE T # {}
    <3>1. IsFiniteSet(T) /\ \A x \in T : u[x] \in Nat BY FS_Subset DEF Distinct
    <3>2. PICK x \in T : \A y \in T : u[y] <= u[x] BY <2>2, <3>1, LastOne
    <3> DEFINE U == T \ {x}
    <3>3. \A y \in U : u[y] < u[x]
      <4> SUFFICES ASSUME NEW y \in U PROVE u[y] < u[x] OBVIOUS
      <4>1. u[y] \in Nat /\ u[x] \in Nat /\ u[y] <= u[x] /\ u[y] # u[x] BY <3>1, <3>2 DEF Distinct
      <4> QED BY <4>1
    <3>4. IsFiniteSet(U) /\ x \notin U /\ U \cup {x} = T BY <3>1, FS_Subset
    <3>5. PICK e : Enumerates(e, U, u) BY <1>2, <3>2
    <3> HIDE DEF U
    <3>6. \E h : Enumerates(h, U \cup {x}, u) BY <3>3, <3>4, <3>5, EnumerateNext
    <3> QED BY <3>4, <3>6
  <2> QED BY <2>1, <2>2
<1>3. S \in G
  <2> HIDE DEF G
  <2>1. G \in SUBSET SUBSET S BY DEF G
  <2> QED BY <1>1, <1>2, <2>1, Subsets
<1> QED BY <1>3

(* An enumeration has each element once, at one place. *)
LEMMA EnumerationProps ==
  ASSUME NEW S, IsFiniteSet(S), NEW u, Distinct(u, S), NEW e, Enumerates(e, S, u)
  PROVE  /\ Cardinality(S) \in Nat /\ \A i \in 1 .. Cardinality(S) : e[i] \in S
         /\ \A i, j \in 1 .. Cardinality(S) : (u[e[i]] < u[e[j]] <=> i < j) /\ (e[i] = e[j] <=> i = j)
         /\ \A x \in S : \E i \in 1 .. Cardinality(S) : e[i] = x
<1>1. PICK n \in Nat : n = Cardinality(S) BY FS_CardinalityType
<1>2. e \in [1 .. n -> S] /\ Increasing(e, n, u) BY <1>1 DEF Enumerates
<1>3. ASSUME NEW i \in 1 .. n, NEW j \in 1 .. n
      PROVE  (u[e[i]] < u[e[j]] <=> i < j) /\ (e[i] = e[j] <=> i = j)
  <2>1. u[e[i]] \in Nat /\ u[e[j]] \in Nat BY <1>2 DEF Distinct
  <2>2. i < j => u[e[i]] < u[e[j]] BY <1>2 DEF Increasing
  <2>3. j < i => u[e[j]] < u[e[i]] BY <1>2 DEF Increasing
  <2> QED BY <2>1, <2>2, <2>3
<1>4. e \in Injection(1 .. n, S) BY <1>2, <1>3 DEF Injection, IsInjective
<1>5. Cardinality(1 .. n) = n
  <2>1. Cardinality(1 .. n) = IF 1 > n THEN 0 ELSE n - 1 + 1 BY FS_Interval
  <2> QED BY <2>1
<1>6. e \in Surjection(1 .. n, S) BY <1>1, <1>4, <1>5, FS_Injection
<1>7. \A x \in S : \E i \in 1 .. n : e[i] = x BY <1>6 DEF Surjection
<1> QED BY <1>1, <1>2, <1>3, <1>7

(* And there is no other. *)
LEMMA EnumerationUnique ==
  ASSUME NEW S, IsFiniteSet(S), NEW u, Distinct(u, S),
         NEW e, Enumerates(e, S, u), NEW h, Enumerates(h, S, u)
  PROVE  e = h
<1>1. PICK n \in Nat : n = Cardinality(S) BY FS_CardinalityType
<1>2. e \in [1 .. n -> S] /\ h \in [1 .. n -> S] BY <1>1 DEF Enumerates
<1>3. /\ \A i, j \in 1 .. n : (u[e[i]] < u[e[j]] <=> i < j) /\ (e[i] = e[j] <=> i = j)
      /\ \A x \in S : \E i \in 1 .. n : e[i] = x
  BY <1>1, EnumerationProps
<1>4. /\ \A i, j \in 1 .. n : (u[h[i]] < u[h[j]] <=> i < j) /\ (h[i] = h[j] <=> i = j)
      /\ \A x \in S : \E i \in 1 .. n : h[i] = x
  BY <1>1, EnumerationProps
<1> SUFFICES ASSUME \E i \in 1 .. n : e[i] # h[i] PROVE FALSE BY <1>2
<1> DEFINE bad == {i \in 1 .. n : e[i] # h[i]}
<1>5. PICK i \in bad : \A j \in bad : i <= j
  <2>1. bad \in SUBSET Nat /\ bad # {} OBVIOUS
  <2> HIDE DEF bad
  <2> QED BY <2>1, MinIsLeast
<1>6. i \in 1 .. n /\ e[i] # h[i] /\ e[i] \in S /\ h[i] \in S BY <1>2, <1>5
<1>7. \A j \in 1 .. n : j < i => e[j] = h[j]
  <2> SUFFICES ASSUME NEW j \in 1 .. n, j < i, j \in bad PROVE FALSE OBVIOUS
  <2>1. i <= j BY <1>5
  <2> QED BY <1>6, <2>1
<1>8. PICK j \in 1 .. n : e[j] = h[i] BY <1>3, <1>6
<1>9. PICK k \in 1 .. n : h[k] = e[i] BY <1>4, <1>6
<1>10. j > i
  <2>1. j # i BY <1>6, <1>8
  <2>2. ~(j < i) BY <1>4, <1>6, <1>7, <1>8
  <2> QED BY <1>6, <2>1, <2>2
<1>11. k > i
  <2>1. k # i BY <1>6, <1>9
  <2>2. ~(k < i) BY <1>3, <1>6, <1>7, <1>9
  <2> QED BY <1>6, <2>1, <2>2
<1>12. u[e[i]] < u[h[i]] BY <1>3, <1>6, <1>8, <1>10
<1>13. u[h[i]] < u[e[i]] BY <1>4, <1>6, <1>9, <1>11
<1>14. u[h[i]] \in Nat /\ u[e[i]] \in Nat BY <1>6 DEF Distinct
<1> QED BY <1>12, <1>13, <1>14

-----------------------------------------------------------------------------
(* The entries in the order of their use, as a value of slots gives it. *)
Uses(sl) == [id \in DOMAIN sl |-> sl[id].used]
Charges(sl) == [id \in DOMAIN sl |-> sl[id].bytes]
View(x) == [model |-> x.model, tokens |-> x.tokens, bytes |-> x.bytes]
Size(sl) == Cardinality(DOMAIN sl)
OrderOf(sl) ==
  CHOOSE f \in [1 .. Size(sl) -> DOMAIN sl] :
    \A i, j \in DOMAIN f : i < j => sl[f[i]].used < sl[f[j]].used
ListOf(sl) == [i \in DOMAIN OrderOf(sl) |-> View(sl[OrderOf(sl)[i]])]

Rows == {View(x) : x \in Entries}
Ordered(sl) ==
  /\ sl \in [DOMAIN sl -> Entries]
  /\ IsFiniteSet(DOMAIN sl) /\ Distinct(Uses(sl), DOMAIN sl)

(* The order is the enumeration by ticks. *)
LEMMA OrderEnumerates ==
  ASSUME NEW sl, Ordered(sl)
  PROVE  Enumerates(OrderOf(sl), DOMAIN sl, Uses(sl))
<1> DEFINE n == Size(sl)
           P(f) == \A i, j \in DOMAIN f : i < j => sl[f[i]].used < sl[f[j]].used
<1>1. PICK e : Enumerates(e, DOMAIN sl, Uses(sl)) BY EnumerationExists DEF Ordered
<1>2. ASSUME NEW f \in [1 .. n -> DOMAIN sl]
      PROVE  P(f) <=> Enumerates(f, DOMAIN sl, Uses(sl))
  <2>1. \A i \in 1 .. n : Uses(sl)[f[i]] = sl[f[i]].used BY DEF Uses
  <2>2. DOMAIN f = 1 .. n OBVIOUS
  <2> QED BY <2>1, <2>2 DEF Enumerates, Increasing, Size
<1>3. e \in [1 .. n -> DOMAIN sl] BY <1>1 DEF Enumerates, Size
<1>4. P(e) BY <1>1, <1>2, <1>3
<1>5. OrderOf(sl) = CHOOSE f \in [1 .. n -> DOMAIN sl] : P(f) BY DEF OrderOf
<1> HIDE DEF P, n
<1>6. OrderOf(sl) \in [1 .. n -> DOMAIN sl] /\ P(OrderOf(sl)) BY <1>3, <1>4, <1>5
<1> QED BY <1>2, <1>6

(* And there is no other: any enumeration gives the list. *)
LEMMA ListIs ==
  ASSUME NEW sl, Ordered(sl), NEW e, Enumerates(e, DOMAIN sl, Uses(sl))
  PROVE  /\ OrderOf(sl) = e /\ Size(sl) \in Nat
         /\ ListOf(sl) \in Seq(Rows) /\ Len(ListOf(sl)) = Size(sl)
         /\ DOMAIN ListOf(sl) = 1 .. Size(sl)
         /\ \A i \in 1 .. Size(sl) : e[i] \in DOMAIN sl /\ ListOf(sl)[i] = View(sl[e[i]])
<1> DEFINE n == Size(sl)
<1>1. OrderOf(sl) = e BY OrderEnumerates, EnumerationUnique DEF Ordered
<1>2. n \in Nat BY FS_CardinalityType DEF Ordered, Size
<1>3. e \in [1 .. n -> DOMAIN sl] BY DEF Enumerates, Size
<1> HIDE DEF n
<1>4. ListOf(sl) = [i \in 1 .. n |-> View(sl[e[i]])] BY <1>1, <1>3 DEF ListOf
<1>5. \A i \in 1 .. n : View(sl[e[i]]) \in Rows BY <1>3 DEF Ordered, Rows
<1>6. ListOf(sl) \in [1 .. n -> Rows] BY <1>4, <1>5
<1>7. ListOf(sl) \in Seq(Rows) BY <1>2, <1>6, SeqDef
<1>8. Len(ListOf(sl)) = n /\ DOMAIN ListOf(sl) = 1 .. n BY <1>2, <1>6, <1>7, LenProperties
<1> QED BY <1>1, <1>2, <1>3, <1>4, <1>7, <1>8 DEF n

(* Using an entry moves it to the end. *)
LEMMA ListTouched ==
  ASSUME NEW sl, Ordered(sl), NEW id \in DOMAIN sl, NEW now \in Nat,
         \A j \in DOMAIN sl : sl[j].used < now,
         NEW k \in 1 .. Size(sl), OrderOf(sl)[k] = id,
         NEW sl2, sl2 \in [DOMAIN sl -> Entries],
         \A j \in DOMAIN sl : /\ View(sl2[j]) = View(sl[j])
                              /\ sl2[j].used = IF j = id THEN now ELSE sl[j].used
  PROVE  /\ Ordered(sl2)
         /\ ListOf(sl2) = Append(RemoveAt(ListOf(sl), k), ListOf(sl)[k])
<1> DEFINE e == OrderOf(sl)
           l == ListOf(sl)
<1>1. PICK n \in Nat : n = Size(sl) BY ListIs, OrderEnumerates
<1>2. /\ l \in Seq(Rows) /\ Len(l) = n
      /\ \A i \in 1 .. n : e[i] \in DOMAIN sl /\ l[i] = View(sl[e[i]])
  BY <1>1, ListIs, OrderEnumerates
<1>3. /\ \A i, j \in 1 .. n : (Uses(sl)[e[i]] < Uses(sl)[e[j]] <=> i < j) /\ (e[i] = e[j] <=> i = j)
      /\ \A x \in DOMAIN sl : \E i \in 1 .. n : e[i] = x
  BY <1>1, EnumerationProps, OrderEnumerates DEF Ordered, Size
<1>4. k \in 1 .. n /\ e[k] = id BY <1>1
<1> HIDE DEF e, l
<1>5. DOMAIN sl2 = DOMAIN sl /\ Size(sl2) = n BY <1>1 DEF Size
<1>6. ASSUME NEW j \in DOMAIN sl
      PROVE  /\ View(sl2[j]) = View(sl[j]) /\ sl2[j] \in Entries
             /\ sl2[j].used = (IF j = id THEN now ELSE sl[j].used) /\ sl[j].used \in Nat
  <2>1. sl[j] \in Entries /\ sl2[j] \in Entries BY DEF Ordered
  <2> QED BY <2>1 DEF Entries
<1>7. \A j \in DOMAIN sl : Uses(sl)[j] = sl[j].used /\ Uses(sl2)[j] = sl2[j].used
  BY <1>5 DEF Uses
<1>8. Ordered(sl2)
  <2>1. sl2 \in [DOMAIN sl2 -> Entries] BY <1>5, <1>6
  <2>2. Distinct(Uses(sl2), DOMAIN sl2)
    <3>1. \A x \in DOMAIN sl : Uses(sl2)[x] \in Nat BY <1>6, <1>7
    <3>2. ASSUME NEW x \in DOMAIN sl, NEW y \in DOMAIN sl, Uses(sl2)[x] = Uses(sl2)[y]
          PROVE  x = y
      <4>1. Uses(sl)[x] = Uses(sl)[y] => x = y BY DEF Ordered, Distinct
      <4>2. sl[x].used < now /\ sl[y].used < now /\ sl[x].used \in Nat /\ sl[y].used \in Nat BY <1>6
      <4> QED BY <1>6, <1>7, <3>2, <4>1, <4>2
    <3> QED BY <1>5, <3>1, <3>2 DEF Distinct
  <2> QED BY <1>5, <2>1, <2>2 DEF Ordered
<1> DEFINE h == [i \in 1 .. n |-> IF i < k THEN e[i] ELSE IF i < n THEN e[i + 1] ELSE id]
<1>9. ASSUME NEW i \in 1 .. n
      PROVE  /\ i < k => h[i] = e[i]
             /\ i >= k /\ i < n => h[i] = e[i + 1] /\ i + 1 \in 1 .. n
             /\ i = n => h[i] = id
             /\ h[i] \in DOMAIN sl
             /\ i < n => h[i] # id /\ Uses(sl2)[h[i]] = Uses(sl)[h[i]]
             /\ i = n => Uses(sl2)[h[i]] = now
  <2>1. h[i] = IF i < k THEN e[i] ELSE IF i < n THEN e[i + 1] ELSE id OBVIOUS
  <2>2. i < n => i + 1 \in 1 .. n OBVIOUS
  <2>3. i < k => i < n BY <1>4
  <2> HIDE DEF h
  <2>4. h[i] \in DOMAIN sl BY <1>2, <2>1, <2>2
  <2>5. i < k => h[i] # id BY <1>3, <1>4, <2>1
  <2>6. i >= k /\ i < n => h[i] # id
    <3> SUFFICES ASSUME i >= k, i < n PROVE h[i] # id OBVIOUS
    <3>1. h[i] = e[i + 1] /\ i + 1 # k BY <1>4, <2>1
    <3> QED BY <1>3, <1>4, <2>2, <3>1
  <2>7. i < n => h[i] # id BY <1>4, <2>5, <2>6
  <2>8. i = n => h[i] = id BY <1>4, <2>1
  <2>9. i < n => Uses(sl2)[h[i]] = Uses(sl)[h[i]] BY <1>6, <1>7, <2>4, <2>7
  <2>10. i = n => Uses(sl2)[h[i]] = now BY <1>6, <1>7, <2>4, <2>8
  <2>11. i < k => h[i] = e[i] BY <2>1
  <2>12. i >= k /\ i < n => h[i] = e[i + 1] /\ i + 1 \in 1 .. n BY <1>4, <2>1, <2>2
  <2> QED BY <2>4, <2>7, <2>8, <2>9, <2>10, <2>11, <2>12
<1> HIDE DEF h
<1>10. Enumerates(h, DOMAIN sl2, Uses(sl2))
  <2>1. h \in [1 .. n -> DOMAIN sl] BY <1>9 DEF h
  <2>2. ASSUME NEW i \in 1 .. n, NEW j \in 1 .. n, i < j
        PROVE  Uses(sl2)[h[i]] < Uses(sl2)[h[j]]
    <3>1. i < n BY <2>2
    <3>2. CASE j = n
      <4>1. Uses(sl2)[h[i]] = sl[h[i]].used BY <1>7, <1>9, <3>1
      <4>2. sl[h[i]].used < now BY <1>9
      <4> QED BY <1>9, <3>2, <4>1, <4>2
    <3>3. CASE j < n
      <4>0. Uses(sl2)[h[i]] = Uses(sl)[h[i]] /\ Uses(sl2)[h[j]] = Uses(sl)[h[j]]
        BY <1>9, <3>1, <3>3
      <4>1. CASE j < k
        <5>1. h[i] = e[i] /\ h[j] = e[j] BY <1>9, <2>2, <4>1
        <5>2. Uses(sl)[e[i]] < Uses(sl)[e[j]] BY <1>3, <2>2
        <5> QED BY <4>0, <5>1, <5>2
      <4>2. CASE j >= k /\ i < k
        <5>1. h[i] = e[i] /\ h[j] = e[j + 1] /\ j + 1 \in 1 .. n /\ i < j + 1 BY <1>9, <2>2, <3>3, <4>2
        <5>2. Uses(sl)[e[i]] < Uses(sl)[e[j + 1]] BY <1>3, <5>1
        <5> QED BY <4>0, <5>1, <5>2
      <4>3. CASE i >= k
        <5>1. h[i] = e[i + 1] /\ i + 1 \in 1 .. n BY <1>9, <3>1, <4>3
        <5>2. h[j] = e[j + 1] /\ j + 1 \in 1 .. n BY <1>9, <2>2, <3>3, <4>3
        <5>3. Uses(sl)[e[i + 1]] < Uses(sl)[e[j + 1]] BY <1>3, <2>2, <5>1, <5>2
        <5> QED BY <4>0, <5>1, <5>2, <5>3
      <4> QED BY <1>4, <4>1, <4>2, <4>3
    <3> QED BY <3>2, <3>3
  <2> QED BY <1>5, <2>1, <2>2 DEF Enumerates, Increasing, Size
<1>11. /\ ListOf(sl2) \in Seq(Rows) /\ Len(ListOf(sl2)) = n
       /\ \A i \in 1 .. n : ListOf(sl2)[i] = View(sl[h[i]])
  <2>1. \A i \in 1 .. n : View(sl2[h[i]]) = View(sl[h[i]]) BY <1>6, <1>9
  <2>2. Size(sl2) = n BY <1>5
  <2>3. /\ ListOf(sl2) \in Seq(Rows) /\ Len(ListOf(sl2)) = Size(sl2)
        /\ \A i \in 1 .. Size(sl2) : ListOf(sl2)[i] = View(sl2[h[i]])
    BY <1>8, <1>10, ListIs
  <2> QED BY <2>1, <2>2, <2>3
<1>12. /\ RemoveAt(l, k) \in Seq(Rows) /\ Len(RemoveAt(l, k)) = n - 1
       /\ \A i \in 1 .. n - 1 : RemoveAt(l, k)[i] = IF i < k THEN l[i] ELSE l[i + 1]
  <2> DEFINE s == SubSeq(l, 1, k - 1)
             t == SubSeq(l, k + 1, n)
  <2>1. \A i \in 1 .. n : l[i] \in Rows BY <1>2, ElementOfSeq
  <2>2. s \in Seq(Rows) /\ Len(s) = k - 1 /\ \A i \in 1 .. k - 1 : s[i] = l[i]
    <3>1. \A i \in 1 .. k - 1 : l[i] \in Rows BY <1>4, <2>1
    <3>2. 1 \in Int /\ k - 1 \in Int /\ k - 1 - 1 + 1 = k - 1 BY <1>4
    <3>3. /\ s \in Seq(Rows) /\ Len(s) = (IF 1 <= k - 1 THEN k - 1 - 1 + 1 ELSE 0)
          /\ \A i \in 1 .. k - 1 - 1 + 1 : s[i] = l[1 + i - 1]
      BY <3>1, <3>2, SubSeqProperties
    <3> HIDE DEF s
    <3>4. Len(s) = k - 1 BY <1>4, <3>3
    <3>5. \A i \in 1 .. k - 1 : s[i] = l[i]
      <4> TAKE i \in 1 .. k - 1
      <4>1. i \in 1 .. k - 1 - 1 + 1 /\ 1 + i - 1 = i BY <1>4
      <4> QED BY <3>3, <4>1
    <3> QED BY <3>3, <3>4, <3>5
  <2>3. t \in Seq(Rows) /\ Len(t) = n - k /\ \A i \in 1 .. n - k : t[i] = l[k + i]
    <3>1. \A i \in k + 1 .. n : l[i] \in Rows BY <1>4, <2>1
    <3>2. k + 1 \in Int /\ n \in Int BY <1>4
    <3>3. /\ t \in Seq(Rows) /\ Len(t) = (IF k + 1 <= n THEN n - (k + 1) + 1 ELSE 0)
          /\ \A i \in 1 .. n - (k + 1) + 1 : t[i] = l[k + 1 + i - 1]
      BY <3>1, <3>2, SubSeqProperties
    <3> HIDE DEF t
    <3>4. Len(t) = n - k BY <1>4, <3>3
    <3>5. \A i \in 1 .. n - k : t[i] = l[k + i]
      <4> TAKE i \in 1 .. n - k
      <4>1. i \in 1 .. n - (k + 1) + 1 /\ k + 1 + i - 1 = k + i BY <1>4
      <4> QED BY <3>3, <4>1
    <3> QED BY <3>3, <3>4, <3>5
  <2>4. RemoveAt(l, k) = s \o t BY <1>2 DEF RemoveAt
  <2> HIDE DEF s, t
  <2>5. /\ s \o t \in Seq(Rows) /\ Len(s \o t) = Len(s) + Len(t)
        /\ \A i \in 1 .. Len(s) + Len(t) : (s \o t)[i] = IF i <= Len(s) THEN s[i] ELSE t[i - Len(s)]
    BY <2>2, <2>3, ConcatProperties
  <2>6. Len(s) + Len(t) = n - 1 BY <1>4, <2>2, <2>3
  <2>7. ASSUME NEW i \in 1 .. n - 1 PROVE (s \o t)[i] = IF i < k THEN l[i] ELSE l[i + 1]
    <3>1. (s \o t)[i] = IF i <= k - 1 THEN s[i] ELSE t[i - (k - 1)] BY <2>2, <2>5, <2>6
    <3>2. CASE i < k
      <4>1. i \in 1 .. k - 1 BY <1>4, <3>2
      <4> QED BY <2>2, <3>1, <3>2, <4>1
    <3>3. CASE i >= k
      <4>1. i - (k - 1) \in 1 .. n - k /\ k + (i - (k - 1)) = i + 1 /\ ~(i <= k - 1) BY <1>4, <3>3
      <4> QED BY <2>3, <3>1, <3>3, <4>1
    <3>4. i < k \/ i >= k BY <1>4
    <3> QED BY <3>2, <3>3, <3>4
  <2> QED BY <2>4, <2>5, <2>6, <2>7
<1>13. l[k] \in Rows BY <1>2, <1>4, ElementOfSeq
<1> DEFINE r == Append(RemoveAt(l, k), l[k])
<1>14. /\ r \in Seq(Rows) /\ Len(r) = n
       /\ \A i \in 1 .. n - 1 : r[i] = RemoveAt(l, k)[i]
       /\ r[n] = l[k]
  <2>1. PICK m \in Nat : m = n - 1 /\ m + 1 = n BY <1>4
  <2> QED BY <1>12, <1>13, <2>1, AppendProperties
<1>15. ASSUME NEW i \in 1 .. n PROVE ListOf(sl2)[i] = r[i]
  <2>0. ListOf(sl2)[i] = View(sl[h[i]]) BY <1>11
  <2>1. CASE i = n
    <3>1. h[i] = id BY <1>9, <2>1
    <3>2. l[k] = View(sl[id]) BY <1>2, <1>4
    <3> QED BY <1>14, <2>0, <2>1, <3>1, <3>2
  <2>2. CASE i < n /\ i < k
    <3>1. i \in 1 .. n - 1 BY <2>2
    <3>2. r[i] = l[i] BY <1>12, <1>14, <2>2, <3>1
    <3>3. h[i] = e[i] BY <1>9, <2>2
    <3>4. l[i] = View(sl[e[i]]) BY <1>2
    <3> QED BY <2>0, <3>2, <3>3, <3>4
  <2>3. CASE i < n /\ i >= k
    <3>1. i \in 1 .. n - 1 /\ i + 1 \in 1 .. n BY <2>3
    <3>2. r[i] = l[i + 1] BY <1>4, <1>12, <1>14, <2>3, <3>1
    <3>3. h[i] = e[i + 1] BY <1>9, <2>3
    <3>4. l[i + 1] = View(sl[e[i + 1]]) BY <1>2, <3>1
    <3> QED BY <2>0, <3>2, <3>3, <3>4
  <2>4. i = n \/ (i < n /\ (i < k \/ i >= k)) BY <1>4
  <2> QED BY <2>1, <2>2, <2>3, <2>4
<1> HIDE DEF r
<1>16. ListOf(sl2) = r BY <1>11, <1>14, <1>15, SeqEqual
<1> QED BY <1>8, <1>16 DEF r, l

(* An entry is added to those from position k on. *)
IsRest(kept, sl, k) == \A x : x \in kept <=> \E i \in k .. Size(sl) : OrderOf(sl)[i] = x
Adds(sl2, sl, kept, new, now) ==
  /\ new \notin kept /\ sl2 \in [kept \cup {new} -> Entries]
  /\ \A j \in kept : sl2[j] = sl[j]
  /\ sl2[new].used = now /\ now \in Nat
  /\ \A j \in DOMAIN sl : sl[j].used < now
IsAdded(l2, l, k, row) == l2 = Append(SubSeq(l, k, Len(l)), row)

(* A new entry goes to the end of what the dropped ones leave. *)
LEMMA ListAdded ==
  ASSUME NEW sl, Ordered(sl), NEW k \in 1 .. Size(sl) + 1, NEW kept, IsRest(kept, sl, k),
         NEW sl2, NEW new, NEW now, Adds(sl2, sl, kept, new, now)
  PROVE  Ordered(sl2) /\ IsAdded(ListOf(sl2), ListOf(sl), k, View(sl2[new]))
<1> USE DEF IsRest, Adds
<1> DEFINE e == OrderOf(sl)
           l == ListOf(sl)
<1>1. PICK n \in Nat : n = Size(sl) BY ListIs, OrderEnumerates
<1>2. /\ l \in Seq(Rows) /\ Len(l) = n
      /\ \A i \in 1 .. n : e[i] \in DOMAIN sl /\ l[i] = View(sl[e[i]])
  BY <1>1, ListIs, OrderEnumerates
<1>3. /\ \A i, j \in 1 .. n : (Uses(sl)[e[i]] < Uses(sl)[e[j]] <=> i < j) /\ (e[i] = e[j] <=> i = j)
      /\ \A x \in DOMAIN sl : \E i \in 1 .. n : e[i] = x
  BY <1>1, EnumerationProps, OrderEnumerates DEF Ordered, Size
<1>4. /\ k \in 1 .. n + 1
      /\ \A x : x \in kept <=> \E i \in k .. n : e[i] = x
  BY <1>1
<1> HIDE DEF e, l
<1>5. \A i \in k .. n : i \in 1 .. n BY <1>4
<1>6. kept \subseteq DOMAIN sl BY <1>2, <1>4, <1>5
<1>7. IsFiniteSet(kept) BY <1>6, FS_Subset DEF Ordered
<1> DEFINE m == n - k + 1
           g == [i \in 1 .. m |-> e[i + k - 1]]
<1>8. m \in Nat BY <1>4
<1>9. \A i \in 1 .. m : i + k - 1 \in k .. n /\ g[i] = e[i + k - 1] BY <1>4
<1>10. \A i \in k .. n : i - k + 1 \in 1 .. m /\ g[i - k + 1] = e[i]
  <2> TAKE i \in k .. n
  <2>1. i - k + 1 \in 1 .. m /\ (i - k + 1) + k - 1 = i BY <1>4
  <2> QED BY <1>9, <2>1
<1> HIDE DEF g
<1>11. g \in [1 .. m -> kept]
  <2>1. \A i \in 1 .. m : g[i] \in kept BY <1>4, <1>9
  <2> QED BY <2>1 DEF g
<1>12. Cardinality(kept) = m
  <2>1. ASSUME NEW i \in 1 .. m, NEW j \in 1 .. m, g[i] = g[j] PROVE i = j
    <3>1. i + k - 1 = j + k - 1 BY <1>3, <1>5, <1>9, <2>1
    <3> QED BY <1>4, <3>1
  <2>2. \A x \in kept : \E i \in 1 .. m : g[i] = x BY <1>4, <1>10
  <2>3. g \in Bijection(1 .. m, kept)
    BY <1>11, <2>1, <2>2 DEF Bijection, Injection, Surjection, IsInjective
  <2>4. ExistsBijection(1 .. m, kept) BY <2>3 DEF ExistsBijection
  <2> QED BY <1>8, <2>4, FS_CountingElements
<1> DEFINE u == Uses(sl2)
<1>13. DOMAIN sl2 = kept \cup {new} OBVIOUS
<1>14. /\ u[new] = now
       /\ \A j \in kept : u[j] = Uses(sl)[j] /\ u[j] < u[new] /\ u[j] \in Nat
  <2>1. \A j \in kept : sl[j] \in Entries BY <1>6 DEF Ordered
  <2>2. \A j \in kept : Uses(sl)[j] = sl[j].used BY <1>6 DEF Uses
  <2>3. \A j \in kept \cup {new} : u[j] = sl2[j].used BY DEF Uses
  <2>4. u[new] = now BY <2>3
  <2>5. \A j \in kept : u[j] = sl[j].used /\ sl[j].used < now BY <1>6, <2>3
  <2>6. \A j \in kept : sl[j].used \in Nat BY <2>1 DEF Entries
  <2> QED BY <2>2, <2>4, <2>5, <2>6
<1> HIDE DEF u
<1>15. Enumerates(g, kept, u)
  <2>1. ASSUME NEW i \in 1 .. m, NEW j \in 1 .. m, i < j PROVE u[g[i]] < u[g[j]]
    <3>1. i + k - 1 \in 1 .. n /\ j + k - 1 \in 1 .. n /\ i + k - 1 < j + k - 1 BY <1>4, <1>5, <1>9, <2>1
    <3>2. Uses(sl)[e[i + k - 1]] < Uses(sl)[e[j + k - 1]] BY <1>3, <3>1
    <3>3. g[i] \in kept /\ g[j] \in kept BY <1>11
    <3> QED BY <1>9, <1>14, <3>2, <3>3
  <2> QED BY <1>11, <1>12, <2>1 DEF Enumerates, Increasing
<1> DEFINE h == [i \in 1 .. m + 1 |-> IF i <= m THEN g[i] ELSE new]
<1>16. Enumerates(h, kept \cup {new}, u)
  <2>1. \A y \in kept : u[y] < u[new] BY <1>14
  <2>2. Enumerates([i \in 1 .. Cardinality(kept) + 1 |-> IF i <= Cardinality(kept) THEN g[i] ELSE new],
                   kept \cup {new}, u)
    BY <1>7, <1>15, <2>1, EnumerateNext
  <2> QED BY <1>12, <2>2
<1>17. /\ IsFiniteSet(DOMAIN sl2) /\ Size(sl2) = m + 1
  BY <1>7, <1>12, <1>13, FS_AddElement DEF Size
<1>18. Ordered(sl2)
  <2>1. Distinct(u, DOMAIN sl2)
    <3>1. \A x \in kept \cup {new} : u[x] \in Nat BY <1>14
    <3>2. ASSUME NEW x \in kept \cup {new}, NEW y \in kept \cup {new}, u[x] = u[y]
          PROVE  x = y
      <4>1. CASE x \in kept /\ y \in kept
        <5>1. Uses(sl)[x] = Uses(sl)[y] BY <1>14, <3>2, <4>1
        <5> QED BY <1>6, <4>1, <5>1 DEF Ordered, Distinct
      <4>2. CASE x \in kept /\ y = new
        <5>1. u[x] < u[y] /\ u[x] \in Nat BY <1>14, <4>2
        <5> QED BY <3>2, <5>1
      <4>3. CASE x = new /\ y \in kept
        <5>1. u[y] < u[x] /\ u[y] \in Nat BY <1>14, <4>3
        <5> QED BY <3>2, <5>1
      <4> QED BY <4>1, <4>2, <4>3
    <3> QED BY <1>13, <3>1, <3>2 DEF Distinct
  <2> QED BY <1>13, <1>17, <2>1 DEF Ordered, u
<1>19. \A i \in 1 .. m : h[i] = g[i] /\ h[i] \in kept BY <1>8, <1>11
<1>20. h[m + 1] = new BY <1>8
<1> HIDE DEF h
<1>21. /\ ListOf(sl2) \in Seq(Rows) /\ Len(ListOf(sl2)) = m + 1
       /\ \A i \in 1 .. m + 1 : ListOf(sl2)[i] = View(sl2[h[i]])
  <2>1. Enumerates(h, DOMAIN sl2, Uses(sl2)) BY <1>13, <1>16 DEF u
  <2>2. /\ ListOf(sl2) \in Seq(Rows) /\ Len(ListOf(sl2)) = Size(sl2)
        /\ \A i \in 1 .. Size(sl2) : ListOf(sl2)[i] = View(sl2[h[i]])
    BY <1>18, <2>1, ListIs
  <2> QED BY <1>17, <2>2
<1> DEFINE s == SubSeq(l, k, n)
<1>22. s \in Seq(Rows) /\ Len(s) = m /\ \A i \in 1 .. m : s[i] = l[i + k - 1]
  <2>1. \A i \in k .. n : l[i] \in Rows BY <1>2, <1>5, ElementOfSeq
  <2>2. k \in Int /\ n \in Int BY <1>4
  <2>3. /\ s \in Seq(Rows) /\ Len(s) = (IF k <= n THEN n - k + 1 ELSE 0)
        /\ \A i \in 1 .. n - k + 1 : s[i] = l[k + i - 1]
    BY <2>1, <2>2, SubSeqProperties
  <2> HIDE DEF s
  <2>4. Len(s) = m BY <1>4, <2>3
  <2>5. \A i \in 1 .. m : s[i] = l[i + k - 1]
    <3> TAKE i \in 1 .. m
    <3>1. k + i - 1 = i + k - 1 BY <1>4
    <3> QED BY <2>3, <3>1
  <2> QED BY <2>3, <2>4, <2>5
<1> HIDE DEF s
<1>23. View(sl2[new]) \in Rows BY DEF Rows
<1> DEFINE r == Append(s, View(sl2[new]))
<1>24. /\ r \in Seq(Rows) /\ Len(r) = m + 1
       /\ \A i \in 1 .. m : r[i] = s[i]
       /\ r[m + 1] = View(sl2[new])
  <2>1. /\ r \in Seq(Rows) /\ Len(r) = Len(s) + 1
        /\ \A i \in 1 .. Len(s) : r[i] = s[i]
        /\ r[Len(s) + 1] = View(sl2[new])
    <3>1. s \in Seq(Rows) BY <1>22
    <3>2. PICK v \in Rows : v = View(sl2[new]) BY <1>23
    <3>3. /\ Append(s, v) \in Seq(Rows) /\ Len(Append(s, v)) = Len(s) + 1
          /\ \A i \in 1 .. Len(s) : Append(s, v)[i] = s[i]
          /\ Append(s, v)[Len(s) + 1] = v
      BY <3>1, AppendProperties
    <3> QED BY <3>2, <3>3
  <2> HIDE DEF r, m
  <2> QED BY <1>22, <2>1
<1> HIDE DEF r, m
<1>25. ASSUME NEW i \in 1 .. m + 1 PROVE ListOf(sl2)[i] = r[i]
  <2>0. ListOf(sl2)[i] = View(sl2[h[i]]) BY <1>21
  <2>1. CASE i = m + 1 BY <1>20, <1>24, <2>0, <2>1
  <2>2. CASE i \in 1 .. m
    <3>1. r[i] = l[i + k - 1] BY <1>22, <1>24, <2>2
    <3>2. i + k - 1 \in 1 .. n /\ h[i] = e[i + k - 1] /\ h[i] \in kept BY <1>5, <1>9, <1>19, <2>2
    <3>3. l[i + k - 1] = View(sl[e[i + k - 1]]) BY <1>2, <3>2
    <3>4. sl2[h[i]] = sl[h[i]] BY <3>2
    <3> QED BY <2>0, <3>1, <3>2, <3>3, <3>4
  <2>3. i = m + 1 \/ i \in 1 .. m BY <1>8
  <2> QED BY <2>1, <2>2, <2>3
<1>26. ListOf(sl2) = r BY <1>21, <1>24, <1>25, SeqEqual
<1> QED BY <1>2, <1>18, <1>26 DEF IsAdded, r, s, l

-----------------------------------------------------------------------------
(* What the two sides sum: the bytes of entries, and of their positions. *)
Bytes(l) == [i \in DOMAIN l |-> l[i].bytes]

(* insert's sum of its victims' bytes. *)
LEMMA SumBytesIs ==
  ASSUME Natural(Charges(slots), DOMAIN slots), NEW U \in SUBSET DOMAIN slots
  PROVE  SumBytes(U) = Sum(Charges(slots), U)
<1> DEFINE f == Charges(slots)
           value(t) == [T \in SUBSET U |->
                          IF T = {} THEN 0 ELSE slots[Pick(T)].bytes + t[T \ {Pick(T)}]]
           t == CHOOSE t : t = value(t)
<1>1. SumBytes(U) = t[U]
  BY DEF SumBytes, MapThenSumSet, MapThenFoldSet, Pick
<1>2. IsFiniteSet(U) /\ \A x \in U : f[x] = slots[x].bytes /\ f[x] \in Nat
  BY FS_Subset DEF Natural, Charges
<1>3. PICK u \in [SUBSET U -> Nat] : Steps(f, u, U) BY <1>2, SumsExist
<1>4. \A T \in SUBSET U : T # {} => f[Pick(T)] = slots[Pick(T)].bytes
  BY <1>2 DEF Pick
<1>5. u = value(u)
  <2> DEFINE v == value(u)
  <2>1. \A T \in SUBSET U : v[T] = u[T] BY <1>3, <1>4 DEF Steps
  <2>2. u = [T \in SUBSET U |-> u[T]] /\ v = [T \in SUBSET U |-> v[T]] OBVIOUS
  <2> HIDE DEF v
  <2>3. u = v BY <2>1, <2>2
  <2> QED BY <2>3 DEF v
<1> HIDE DEF value
<1>6. t = value(t) BY <1>5
<1> HIDE DEF t
<1>7. Steps(f, t, U) BY <1>4, <1>6 DEF Steps, value
<1>8. t[U] = u[U] BY <1>2, <1>3, <1>7, StepsAgree
<1>9. Sum(f, U) = u[U] BY <1>2, <1>3, FoldIs
<1> QED BY <1>1, <1>8, <1>9

(* The sum of PromptLru's Insert. *)
LEMMA BytesFromIs ==
  ASSUME NEW k, Natural(Bytes(ByUse), k .. Len(ByUse)), k .. Len(ByUse) \subseteq DOMAIN ByUse
  PROVE  Lru!BytesFrom(k) = Sum(Bytes(ByUse), k .. Len(ByUse))
<1>0. PICK N : N = k .. Len(ByUse) OBVIOUS
<1> DEFINE f == Bytes(ByUse)
           value(t) == [T \in SUBSET N |->
                          IF T = {} THEN 0 ELSE ByUse[Pick(T)].bytes + t[T \ {Pick(T)}]]
           t == CHOOSE t : t = value(t)
<1>1. Lru!BytesFrom(k) = t[N]
  BY <1>0 DEF Lru!BytesFrom, Lru!MapThenSumSet, Lru!MapThenFoldSet, Pick
<1>2. IsFiniteSet(N) /\ \A x \in N : f[x] = ByUse[x].bytes /\ f[x] \in Nat
  BY <1>0 DEF Natural, Bytes
<1>3. PICK u \in [SUBSET N -> Nat] : Steps(f, u, N) BY <1>2, SumsExist
<1>4. \A T \in SUBSET N : T # {} => f[Pick(T)] = ByUse[Pick(T)].bytes
  BY <1>2 DEF Pick
<1>5. u = value(u)
  <2> DEFINE v == value(u)
  <2>1. \A T \in SUBSET N : v[T] = u[T] BY <1>3, <1>4 DEF Steps
  <2>2. u = [T \in SUBSET N |-> u[T]] /\ v = [T \in SUBSET N |-> v[T]] OBVIOUS
  <2> HIDE DEF v
  <2>3. u = v BY <2>1, <2>2
  <2> QED BY <2>3 DEF v
<1> HIDE DEF value
<1>6. t = value(t) BY <1>5
<1> HIDE DEF t
<1>7. Steps(f, t, N) BY <1>4, <1>6 DEF Steps, value
<1> HIDE DEF f
<1>8. t[N] = u[N] BY <1>2, <1>3, <1>7, StepsAgree
<1>9. Sum(f, N) = u[N] BY <1>2, <1>3, FoldIs
<1> QED BY <1>0, <1>1, <1>8, <1>9 DEF f

-----------------------------------------------------------------------------
(* The entries are charged for. *)
Priced == Ordered(slots) /\ bytes = Sum(Charges(slots), DOMAIN slots)

(* The refinement mapping is this list. *)
LEMMA ListIsByUse == ByUse = ListOf(slots) /\ Order = OrderOf(slots)
BY DEF ByUse, ListOf, Order, OrderOf, Size, View

(* What the entries from a position on are charged. *)
LEMMA BytesOfTail ==
  ASSUME Priced, NEW k \in 1 .. Size(slots) + 1
  PROVE  /\ Natural(Bytes(ByUse), k .. Size(slots))
         /\ Lru!BytesFrom(k) \in Nat
         /\ Lru!BytesFrom(k) = Sum(Bytes(ByUse), k .. Size(slots))
         /\ Natural(Charges(slots), {Order[i] : i \in k .. Size(slots)})
         /\ Lru!BytesFrom(k) = Sum(Charges(slots), {Order[i] : i \in k .. Size(slots)})
<1> DEFINE l == ByUse
           e == Order
           f == Charges(slots)
           g == Bytes(ByUse)
<1>1. PICK n \in Nat : n = Size(slots) BY ListIs, OrderEnumerates DEF Priced
<1>2. /\ l \in Seq(Rows) /\ Len(l) = n /\ DOMAIN l = 1 .. n
      /\ \A i \in 1 .. n : e[i] \in DOMAIN slots /\ l[i] = View(slots[e[i]])
  BY <1>1, ListIs, OrderEnumerates, ListIsByUse DEF Priced
<1>3. \A i, j \in 1 .. n : e[i] = e[j] => i = j
  BY <1>1, EnumerationProps, OrderEnumerates, ListIsByUse DEF Priced, Ordered, Size
<1>4. Natural(f, DOMAIN slots)
  <2>1. \A x \in DOMAIN slots : f[x] \in Nat BY DEF Priced, Ordered, Entries, Charges
  <2> QED BY <2>1 DEF Natural, Priced, Ordered
<1>5. k \in 1 .. n + 1 /\ \A i \in k .. n : i \in 1 .. n BY <1>1
<1> DEFINE U == {e[i] : i \in k .. n}
<1>6. U \subseteq DOMAIN slots BY <1>2, <1>5
<1>7. Natural(f, U) /\ Sum(f, U) \in Nat
  <2> HIDE DEF U, f
  <2> QED BY <1>4, <1>6, NaturalPart
<1>8. \A i \in k .. n : g[i] = f[e[i]]
  <2> TAKE i \in k .. n
  <2>1. g[i] = l[i].bytes BY <1>2, <1>5 DEF Bytes
  <2>2. l[i] = View(slots[e[i]]) /\ e[i] \in DOMAIN slots BY <1>2, <1>5
  <2> QED BY <2>1, <2>2 DEF View, Charges
<1> HIDE DEF e, f, g
<1>9. \A i, j \in k .. n : e[i] = e[j] => i = j BY <1>3, <1>5
<1>10. Natural(g, k .. n) /\ Sum(g, k .. n) = Sum(f, U)
  <2>1. k \in Nat BY <1>5
  <2>2. Numbers(e, k, n, U) BY <1>9 DEF Numbers
  <2>3. Follows(g, f, e, k, n) BY <1>8 DEF Follows
  <2> HIDE DEF U
  <2> QED BY <1>7, <2>1, <2>2, <2>3, SumNumbered
<1>11. Lru!BytesFrom(k) = Sum(g, k .. n)
  <2>1. k .. n \subseteq DOMAIN ByUse BY <1>2, <1>5
  <2>2. k .. Len(ByUse) = k .. n BY <1>2
  <2>3. Natural(Bytes(ByUse), k .. Len(ByUse)) BY <1>10, <2>2 DEF g
  <2>4. Lru!BytesFrom(k) = Sum(Bytes(ByUse), k .. Len(ByUse)) BY <2>1, <2>2, <2>3, BytesFromIs
  <2> QED BY <2>2, <2>4 DEF g
<1> QED BY <1>1, <1>7, <1>10, <1>11 DEF e, f, g

(* Which entries insert evicts: those that come before the first position  *)
(* from which on the entries fit beside the new one.                       *)
LEMMA VictimsAre ==
  ASSUME Priced, NEW charge \in Nat, charge <= Budget, Budget \in Nat
  PROVE  \E k \in 1 .. Size(slots) + 1 :
           /\ Lru!BytesFrom(k) + charge <= Budget
           /\ k > 1 => Lru!BytesFrom(k - 1) + charge > Budget
           /\ \A x : x \in DOMAIN slots \ Victims(charge) <=>
                       \E i \in k .. Size(slots) : Order[i] = x
<1> DEFINE e == Order
           f == Charges(slots)
           g == Bytes(ByUse)
           D == DOMAIN slots
           from(i) == Lru!BytesFrom(i)
<1>1. PICK n \in Nat : n = Size(slots) BY ListIs, OrderEnumerates DEF Priced
<1>2. \A i \in 1 .. n + 1 : /\ Natural(g, i .. n) /\ from(i) \in Nat /\ from(i) = Sum(g, i .. n)
                            /\ from(i) = Sum(f, {e[j] : j \in i .. n})
  BY <1>1, BytesOfTail
<1>3. /\ \A i, j \in 1 .. n : (Uses(slots)[e[i]] < Uses(slots)[e[j]] <=> i < j) /\ (e[i] = e[j] <=> i = j)
      /\ \A x \in D : \E i \in 1 .. n : e[i] = x
      /\ \A i \in 1 .. n : e[i] \in D
  BY <1>1, EnumerationProps, OrderEnumerates, ListIsByUse DEF Priced, Ordered, Size
<1>4. Natural(f, D)
  <2>1. \A x \in D : f[x] \in Nat BY DEF Priced, Ordered, Entries, Charges
  <2> QED BY <2>1 DEF Natural, Priced, Ordered
<1> HIDE DEF f, g, from
<1>5. ASSUME NEW i \in 1 .. n
      PROVE  e[i] \in Victims(charge) <=> from(i) + charge > Budget
  <2> DEFINE older == OlderThan(e[i])
             T == {e[j] : j \in i .. n}
  <2>1. T = D \ older
    <3>1. ASSUME NEW j \in 1 .. n PROVE e[j] \in older <=> j < i
      <4>1. e[j] \in older <=> Uses(slots)[e[j]] < Uses(slots)[e[i]] BY <1>3 DEF OlderThan, Uses
      <4> QED BY <1>3, <4>1
    <3>2. \A j \in i .. n : e[j] \in D \ older
      <4> TAKE j \in i .. n
      <4>1. j \in 1 .. n /\ ~(j < i) OBVIOUS
      <4> QED BY <1>3, <3>1, <4>1
    <3>3. \A x \in D \ older : x \in T
      <4> TAKE x \in D \ older
      <4>1. PICK j \in 1 .. n : e[j] = x BY <1>3
      <4>2. j \in i .. n BY <3>1, <4>1
      <4> QED BY <4>1, <4>2
    <3> QED BY <3>2, <3>3
  <2>2. older \subseteq D BY DEF OlderThan
  <2> HIDE DEF older, T
  <2>3. SumBytes(older) = Sum(f, older) BY <1>4, <2>2, SumBytesIs DEF f
  <2>4. Sum(f, D) = Sum(f, older) + Sum(f, D \ older) BY <1>4, <2>2, SumSplit
  <2>5. Sum(f, older) \in Nat /\ Sum(f, D \ older) \in Nat BY <1>4, <2>2, NaturalPart
  <2>6. from(i) = Sum(f, D \ older) BY <1>2, <2>1 DEF T
  <2>7. bytes = Sum(f, D) BY DEF Priced, f
  <2>8. e[i] \in Victims(charge) <=> bytes - SumBytes(older) + charge > Budget
    BY <1>3 DEF Victims, older
  <2>9. PICK a \in Nat, b \in Nat : a = Sum(f, older) /\ b = Sum(f, D \ older) BY <2>5
  <2>10. bytes - SumBytes(older) = b BY <2>3, <2>4, <2>7, <2>9
  <2> QED BY <2>6, <2>8, <2>9, <2>10
<1>6. ASSUME NEW i \in 1 .. n + 1, NEW j \in i .. n + 1 PROVE from(j) <= from(i)
  <2> DEFINE N == i .. n
             L == j .. n
  <2>1. L \subseteq N BY <1>6
  <2>2. Natural(g, N) /\ from(i) = Sum(g, N) BY <1>2
  <2>3. j \in 1 .. n + 1 BY <1>6
  <2>4. from(j) = Sum(g, L) /\ from(j) \in Nat /\ from(i) \in Nat BY <1>2, <2>3
  <2> HIDE DEF N, L
  <2>5. Sum(g, N) = Sum(g, L) + Sum(g, N \ L) BY <2>1, <2>2, SumSplit
  <2>6. PICK a \in Nat : a = Sum(g, N \ L) BY <2>2, NaturalPart
  <2>7. PICK b \in Nat : b = from(j) BY <2>4
  <2>8. from(i) = b + a BY <2>2, <2>4, <2>5, <2>6, <2>7
  <2> QED BY <2>7, <2>8
<1>7. from(n + 1) = 0
  <2>1. n + 1 .. n = {} OBVIOUS
  <2>2. n + 1 \in 1 .. n + 1 OBVIOUS
  <2>3. Natural(g, {}) /\ from(n + 1) = Sum(g, {}) BY <1>2, <2>1, <2>2
  <2> QED BY <2>3, SumStep
<1> DEFINE S == {i \in 1 .. n + 1 : from(i) + charge <= Budget}
<1>8. PICK k \in S : \A i \in S : k <= i
  <2>1. n + 1 \in S BY <1>7
  <2>2. S \in SUBSET Nat /\ S # {} BY <2>1
  <2> HIDE DEF S
  <2> QED BY <2>2, MinIsLeast
<1>9. k \in 1 .. n + 1 /\ from(k) + charge <= Budget BY <1>8
<1>10. ASSUME NEW i \in 1 .. n, i < k PROVE from(i) + charge > Budget
  <2>1. i \notin S BY <1>8, <1>9, <1>10
  <2>2. i \in 1 .. n + 1 OBVIOUS
  <2>3. ~(from(i) + charge <= Budget) BY <2>1, <2>2
  <2>4. from(i) \in Nat BY <1>2, <2>2
  <2> QED BY <2>3, <2>4
<1>11. ASSUME NEW i \in k .. n PROVE ~(from(i) + charge > Budget)
  <2>1. i \in k .. n + 1 /\ i \in 1 .. n + 1 BY <1>9
  <2>2. from(i) <= from(k) /\ from(i) \in Nat /\ from(k) \in Nat BY <1>2, <1>6, <1>9, <2>1
  <2> QED BY <1>9, <2>2
<1>12. k > 1 => from(k - 1) + charge > Budget
  <2> SUFFICES ASSUME k > 1 PROVE from(k - 1) + charge > Budget OBVIOUS
  <2>1. k - 1 \in 1 .. n /\ k - 1 < k BY <1>9
  <2> QED BY <1>10, <2>1
<1>13. ASSUME NEW x
       PROVE  x \in D \ Victims(charge) <=> \E i \in k .. n : e[i] = x
  <2>1. ASSUME x \in D \ Victims(charge) PROVE \E i \in k .. n : e[i] = x
    <3>1. PICK i \in 1 .. n : e[i] = x BY <1>3, <2>1
    <3>2. ~(i < k) BY <1>5, <1>10, <2>1, <3>1
    <3>3. i \in k .. n BY <1>9, <3>1, <3>2
    <3> QED BY <3>1, <3>3
  <2>2. ASSUME NEW i \in k .. n, e[i] = x PROVE x \in D \ Victims(charge)
    <3>1. i \in 1 .. n BY <1>9
    <3> QED BY <1>3, <1>5, <1>11, <2>2, <3>1
  <2> QED BY <2>1, <2>2
<1> HIDE DEF S, e
<1> QED BY <1>1, <1>9, <1>12, <1>13 DEF e, from

-----------------------------------------------------------------------------
(* Of the uses, none is later than now; what is stored is long enough. *)
Recent ==
  \A id \in DOMAIN slots : slots[id].used <= tick /\ Len(slots[id].tokens) >= MinTokens

(* Each position of the list is an entry's, and each entry has one. *)
LEMMA ListOfEntries ==
  ASSUME Priced
  PROVE  /\ Size(slots) \in Nat /\ Len(ByUse) = Size(slots)
         /\ DOMAIN ByUse = 1 .. Size(slots) /\ ByUse \in Seq(Rows)
         /\ \A i \in 1 .. Size(slots) :
              Order[i] \in DOMAIN slots /\ ByUse[i] = View(slots[Order[i]])
         /\ \A id \in DOMAIN slots : \E i \in 1 .. Size(slots) : Order[i] = id
         /\ \A i, j \in 1 .. Size(slots) : Order[i] = Order[j] => i = j
<1>1. Enumerates(Order, DOMAIN slots, Uses(slots)) BY OrderEnumerates, ListIsByUse DEF Priced
<1>2. Ordered(slots) BY DEF Priced
<1>3. /\ ListOf(slots) \in Seq(Rows) /\ Len(ListOf(slots)) = Size(slots) /\ Size(slots) \in Nat
      /\ DOMAIN ListOf(slots) = 1 .. Size(slots)
      /\ \A i \in 1 .. Size(slots) :
           Order[i] \in DOMAIN slots /\ ListOf(slots)[i] = View(slots[Order[i]])
  BY <1>1, <1>2, ListIs
<1>4. /\ \A i, j \in 1 .. Size(slots) : Order[i] = Order[j] => i = j
      /\ \A id \in DOMAIN slots : \E i \in 1 .. Size(slots) : Order[i] = id
  BY <1>1, <1>2, EnumerationProps DEF Ordered, Size
<1> QED BY <1>3, <1>4, ListIsByUse

(* A use of an entry is a refresh. *)
LEMMA TouchMaps ==
  ASSUME StoreInv, Priced, Recent, NEW id \in DOMAIN slots, Touch(id), UNCHANGED bytes
  PROVE  /\ Priced' /\ Recent'
         /\ \E k \in 1 .. Len(ByUse) :
              ByUse[k] = View(slots[id]) /\ ByUse' = Lru!Refreshed(k)
<1>1. /\ slots[id] \in Entries /\ Now \in Nat /\ tick' = Now /\ tick \in Nat
      /\ \A j \in DOMAIN slots : slots[j] \in Entries
  BY DEF Stored, StoreInv, Touch, Now
<1>2. slots' = [slots EXCEPT ![id].used = Now] BY DEF Touch
<1>3. /\ DOMAIN slots' = DOMAIN slots /\ slots' \in [DOMAIN slots -> Entries]
      /\ \A j \in DOMAIN slots :
           /\ View(slots'[j]) = View(slots[j]) /\ slots'[j].bytes = slots[j].bytes
           /\ slots'[j].tokens = slots[j].tokens
           /\ slots'[j].used = IF j = id THEN Now ELSE slots[j].used
  <2>1. [slots[id] EXCEPT !.used = Now] \in Entries BY <1>1 DEF Entries
  <2>2. \A j \in DOMAIN slots : slots'[j] = IF j = id THEN [slots[id] EXCEPT !.used = Now] ELSE slots[j]
    BY <1>2
  <2> QED BY <1>1, <1>2, <2>1, <2>2 DEF View, Entries
<1>4. \A j \in DOMAIN slots : slots[j].used < Now
  <2>1. \A j \in DOMAIN slots : slots[j].used \in Nat BY <1>1 DEF Entries
  <2> QED BY <1>1, <2>1 DEF Recent, Now
<1>5. PICK k \in 1 .. Size(slots) : Order[k] = id BY ListOfEntries
<1>6. OrderOf(slots)[k] = id BY <1>5, ListIsByUse
<1>7. Ordered(slots) BY DEF Priced
<1>8. PICK sl2 : sl2 = slots' OBVIOUS
<1>9. PICK now \in Nat : now = Now BY <1>1
<1>10. /\ Ordered(sl2)
       /\ ListOf(sl2) = Append(RemoveAt(ListOf(slots), k), ListOf(slots)[k])
  <2>1. /\ sl2 \in [DOMAIN slots -> Entries]
        /\ \A j \in DOMAIN slots : /\ View(sl2[j]) = View(slots[j])
                                   /\ sl2[j].used = IF j = id THEN now ELSE slots[j].used
    BY <1>3, <1>8, <1>9
  <2>2. \A j \in DOMAIN slots : slots[j].used < now BY <1>4, <1>9
  <2> QED BY <1>5, <1>6, <1>7, <2>1, <2>2, ListTouched
<1>11. ByUse' = ListOf(slots') BY DEF ByUse, ListOf, Order, OrderOf, Size, View
<1>12. ByUse' = Append(RemoveAt(ByUse, k), ByUse[k]) BY <1>8, <1>10, <1>11, ListIsByUse
<1>13. ByUse' = Lru!Refreshed(k) BY <1>12 DEF Lru!Refreshed, Lru!RemoveAt, RemoveAt
<1>14. Recent'
  <2> SUFFICES ASSUME NEW j \in DOMAIN slots
               PROVE  slots'[j].used <= tick' /\ Len(slots'[j].tokens) >= MinTokens
    BY <1>3 DEF Recent
  <2>1. slots[j].used \in Nat /\ slots[j].used < Now BY <1>1, <1>4 DEF Entries
  <2>2. slots'[j].used = Now \/ slots'[j].used = slots[j].used BY <1>3
  <2>3. Len(slots[j].tokens) >= MinTokens BY DEF Recent
  <2> QED BY <1>1, <1>3, <2>1, <2>2, <2>3
<1>15. Priced'
  <2>1. Charges(slots') = Charges(slots) BY <1>3 DEF Charges
  <2> QED BY <1>3, <1>8, <1>10, <2>1 DEF Priced
<1>16. ByUse[k] = View(slots[id]) /\ k \in 1 .. Len(ByUse) BY <1>5, ListOfEntries
<1> QED BY <1>13, <1>14, <1>15, <1>16

(* Dropping everything empties the list. *)
LEMMA EmptyList ==
  ASSUME NEW sl \in [{} -> Entries]
  PROVE  Ordered(sl) /\ ListOf(sl) = <<>> /\ Sum(Charges(sl), DOMAIN sl) = 0
<1>1. IsFiniteSet({}) /\ Cardinality({}) = 0 BY FS_EmptySet
<1>2. DOMAIN sl = {} OBVIOUS
<1>3. Ordered(sl) BY <1>1, <1>2 DEF Ordered, Distinct
<1>4. Size(sl) = 0 BY <1>1, <1>2 DEF Size
<1>5. ListOf(sl) \in Seq(Rows) /\ Len(ListOf(sl)) = Size(sl) BY <1>3, ListIs, OrderEnumerates
<1>6. ListOf(sl) = <<>> BY <1>4, <1>5, EmptySeq
<1>7. Natural(Charges(sl), {}) BY <1>1 DEF Natural
<1>8. Sum(Charges(sl), {}) = 0 BY <1>7, SumStep
<1> QED BY <1>2, <1>3, <1>6, <1>8

(* clear drops everything. *)
LEMMA ClearMaps ==
  ASSUME StoreInv, Priced, Clear
  PROVE  Priced' /\ Recent' /\ ByUse' = <<>>
<1>1. slots' \in [{} -> Entries] BY DEF Clear, Without
<1>2. PICK sl2 \in [{} -> Entries] : sl2 = slots' BY <1>1
<1>3. Ordered(slots') /\ ListOf(slots') = <<>> /\ Sum(Charges(slots'), DOMAIN slots') = 0
  BY <1>2, EmptyList
<1>4. bytes' = 0
  <2> DEFINE f == Charges(slots)
             D == DOMAIN slots
  <2>1. \A x \in D : f[x] \in Nat BY DEF Priced, Ordered, Entries, Charges
  <2>2. Natural(f, D) BY <2>1 DEF Natural, Priced, Ordered
  <2>3. SumBytes(D) = Sum(f, D) /\ Sum(f, D) \in Nat BY <2>2, SumBytesIs, SumStep
  <2>4. bytes' = bytes - SumBytes(D) BY DEF Clear, Freed
  <2>5. bytes = Sum(f, D) BY DEF Priced
  <2> HIDE DEF f, D
  <2> QED BY <2>3, <2>4, <2>5
<1>5. ByUse' = ListOf(slots') BY DEF ByUse, ListOf, Order, OrderOf, Size, View
<1>6. Recent' BY <1>1 DEF Recent
<1> QED BY <1>3, <1>4, <1>5, <1>6 DEF Priced

(* A stored entry is an insertion: as many of the least recently used      *)
(* entries go as must for it to fit.                                       *)
LEMMA StoreMaps ==
  ASSUME StoreInv, Priced, Recent, NEW m \in Models, NEW t \in Seq(Int), Len(t) >= MinTokens,
         NEW charge \in Nat, charge <= Budget, Budget \in Nat, Exact(m, t) = {},
         Store(m, t, charge), UNCHANGED <<Answered, got>>
  PROVE  /\ Priced' /\ Recent'
         /\ Len(ByUse') > 0 /\ Lru!Insert(Lru!Last(ByUse'))
<1> DEFINE out == Victims(charge)
           kept == DOMAIN slots \ out
           keys == BlockKeys(m, t)
           entry == [model |-> m, tokens |-> t, bytes |-> charge, used |-> Now, keys |-> keys]
           l == ByUse
<1>1. /\ nextId \in Nat /\ nextId \notin DOMAIN slots /\ Now \in Nat /\ tick \in Nat
      /\ tick' = Now /\ bytes' = bytes - Freed(out) + charge
      /\ slots' = [id \in kept \cup {nextId} |-> IF id = nextId THEN entry ELSE slots[id]]
  BY DEF Stored, StoreInv, Now, Store, Without
<1>2. PICK new : new = nextId OBVIOUS
<1>3. PICK n \in Nat : n = Size(slots) BY ListOfEntries
<1>4. entry \in Entries
  <2>1. keys \in KeyLists BY DEF KeyLists
  <2> HIDE DEF keys
  <2> QED BY <1>1, <2>1 DEF Entries
<1>5. /\ entry.used = Now /\ entry.bytes = charge /\ entry.tokens = t
      /\ View(entry) = [model |-> m, tokens |-> t, bytes |-> charge]
  BY DEF View
<1> HIDE DEF entry, out
<1>6. \A j \in DOMAIN slots : slots[j] \in Entries /\ slots[j].used < Now
  <2>1. \A j \in DOMAIN slots : slots[j] \in Entries BY DEF Stored, StoreInv
  <2>2. \A j \in DOMAIN slots : slots[j].used \in Nat BY <2>1 DEF Entries
  <2> QED BY <1>1, <2>1, <2>2 DEF Recent, Now
<1>7. PICK k \in 1 .. n + 1 :
        /\ Lru!BytesFrom(k) + charge <= Budget
        /\ k > 1 => Lru!BytesFrom(k - 1) + charge > Budget
        /\ \A x : x \in kept <=> \E i \in k .. n : Order[i] = x
  BY <1>3, VictimsAre DEF out
<1>8. PICK sl2 : sl2 = slots' OBVIOUS
<1>9. PICK now \in Nat : now = Now BY <1>1
<1>10. PICK left : left = kept OBVIOUS
<1>11. /\ sl2 \in [left \cup {new} -> Entries] /\ new \notin left
       /\ \A j \in left : sl2[j] = slots[j]
       /\ sl2[new] = entry
  <2>1. sl2 = [id \in left \cup {new} |-> IF id = new THEN entry ELSE slots[id]]
    BY <1>1, <1>2, <1>8, <1>10
  <2>2. new \notin left /\ left \subseteq DOMAIN slots BY <1>1, <1>2, <1>10
  <2>3. \A id \in left \cup {new} : (IF id = new THEN entry ELSE slots[id]) \in Entries
    BY <1>4, <1>6, <2>2
  <2>4. sl2 \in [left \cup {new} -> Entries] BY <2>1, <2>3
  <2> QED BY <2>1, <2>2, <2>4
<1>12. /\ Ordered(sl2)
       /\ ListOf(sl2) = Append(SubSeq(ListOf(slots), k, Size(slots)), View(sl2[new]))
  <2>1. IsRest(left, slots, k) BY <1>3, <1>7, <1>10, ListIsByUse DEF IsRest
  <2>2. \A j \in DOMAIN slots : slots[j].used < now BY <1>6, <1>9
  <2>3. sl2[new].used = now BY <1>5, <1>9, <1>11
  <2>4. Ordered(slots) /\ k \in 1 .. Size(slots) + 1 BY <1>3 DEF Priced
  <2>5. Adds(sl2, slots, left, new, now) BY <1>9, <1>11, <2>2, <2>3 DEF Adds
  <2>6. Ordered(sl2) BY <2>1, <2>4, <2>5, ListAdded
  <2>7. IsAdded(ListOf(sl2), ListOf(slots), k, View(sl2[new]))
    BY <2>1, <2>4, <2>5, ListAdded
  <2>8. Len(ListOf(slots)) = Size(slots) BY ListOfEntries, ListIsByUse
  <2> QED BY <2>6, <2>7, <2>8 DEF IsAdded
<1> DEFINE row == [model |-> m, tokens |-> t, bytes |-> charge]
<1>13. ByUse' = Append(SubSeq(l, k, n), row)
  <2>1. ByUse' = ListOf(slots') BY DEF ByUse, ListOf, Order, OrderOf, Size, View
  <2>2. View(sl2[new]) = row BY <1>5, <1>11
  <2>3. ListOf(slots) = l BY ListIsByUse
  <2> HIDE DEF row, l
  <2>4. SubSeq(ListOf(slots), k, Size(slots)) = SubSeq(l, k, n) BY <1>3, <2>3
  <2> QED BY <1>8, <1>12, <2>1, <2>2, <2>4
<1>14. row \in Rows BY <1>4, <1>5 DEF Rows
<1>15. /\ l \in Seq(Rows) /\ Len(l) = n
       /\ \A i \in 1 .. n : Order[i] \in DOMAIN slots /\ l[i] = View(slots[Order[i]])
  BY <1>3, ListOfEntries
<1> HIDE DEF row
<1>16. Len(ByUse') > 0 /\ Lru!Last(ByUse') = row
  <2> DEFINE s == SubSeq(l, k, n)
  <2>1. s \in Seq(Rows)
    <3>1. \A i \in k .. n : l[i] \in Rows
      <4> TAKE i \in k .. n
      <4>1. i \in 1 .. Len(l) BY <1>7, <1>15
      <4> QED BY <1>15, <4>1, ElementOfSeq
    <3>2. k \in Int /\ n \in Int BY <1>7
    <3> HIDE DEF l
    <3> QED BY <3>1, <3>2, SubSeqProperties
  <2>2. PICK x \in Rows : x = row BY <1>14
  <2> HIDE DEF s
  <2>3. /\ Append(s, x) \in Seq(Rows) /\ Len(Append(s, x)) = Len(s) + 1
        /\ Append(s, x)[Len(s) + 1] = x
    BY <2>1, AppendProperties
  <2>4. ByUse' = Append(s, x) BY <1>13, <2>2 DEF s
  <2>5. Len(s) \in Nat BY <2>1, LenProperties
  <2>6. Len(ByUse') = Len(s) + 1 /\ ByUse'[Len(ByUse')] = row BY <2>2, <2>3, <2>4
  <2> QED BY <2>5, <2>6 DEF Lru!Last
<1>17. ASSUME NEW i \in 1 .. n PROVE <<l[i].model, l[i].tokens>> # <<m, t>>
  <2> DEFINE x == slots[Order[i]]
  <2>1. Order[i] \in DOMAIN slots /\ l[i] = View(x) BY <1>15
  <2>2. l[i].model = x.model /\ l[i].tokens = x.tokens BY <2>1 DEF View
  <2>3. x.tokens \in Seq(Int) BY <1>6, <2>1 DEF Entries
  <2>4. Order[i] \in Exact(x.model, x.tokens) BY <2>1, <2>3, ExactFinds DEF StoreInv
  <2>5. ~(x.model = m /\ x.tokens = t) BY <2>4
  <2> QED BY <2>2, <2>5
<1>18. Lru!Insert(row)
  <2>1. row.bytes = charge /\ row.model = m /\ row.tokens = t BY DEF row
  <2>2. row.bytes <= Budget /\ Len(row.tokens) >= MinTokens BY <2>1
  <2>3. \A i \in 1 .. Len(ByUse) : <<ByUse[i].model, ByUse[i].tokens>> # <<row.model, row.tokens>>
    BY <1>15, <1>17, <2>1
  <2>4. /\ k \in 1 .. Len(ByUse) + 1
        /\ Lru!BytesFrom(k) + row.bytes <= Budget
        /\ k > 1 => Lru!BytesFrom(k - 1) + row.bytes > Budget
    BY <1>7, <1>15, <2>1
  <2>5. ByUse' = Append(Lru!From(k), row) BY <1>13, <1>15 DEF Lru!From
  <2> QED BY <2>2, <2>3, <2>4, <2>5 DEF Lru!Insert
<1>19. bytes' = Sum(Charges(slots'), DOMAIN slots')
  <2> DEFINE f == Charges(slots)
             g == Charges(sl2)
             D == DOMAIN slots
  <2>1. Natural(f, D)
    <3>1. \A x \in D : f[x] \in Nat BY <1>6 DEF Entries, Charges
    <3> QED BY <3>1 DEF Natural, Priced, Ordered
  <2>2. left \subseteq D /\ out \subseteq D /\ left = D \ out BY <1>10 DEF out, Victims
  <2>3. DOMAIN sl2 = left \cup {new} BY <1>11
  <2>4. Natural(g, left \cup {new})
    <3>1. \A x \in DOMAIN sl2 : g[x] \in Nat BY <1>12 DEF Ordered, Entries, Charges
    <3> QED BY <1>12, <2>3, <3>1 DEF Natural, Ordered
  <2>5. g[new] = charge /\ \A x \in left : g[x] = f[x]
    <3>1. \A x \in left : x \in DOMAIN sl2 /\ x \in D BY <2>2, <2>3
    <3> QED BY <1>5, <1>11, <2>3, <3>1 DEF Charges
  <2>6. Freed(out) = Sum(f, out) BY <2>1, <2>2, SumBytesIs DEF Freed
  <2>7. bytes = Sum(f, D) BY DEF Priced
  <2> HIDE DEF f, g, D
  <2>8. Sum(f, D) = Sum(f, out) + Sum(f, left) BY <2>1, <2>2, SumSplit
  <2>9. Natural(f, left) /\ Sum(f, left) \in Nat /\ Sum(f, out) \in Nat BY <2>1, <2>2, NaturalPart
  <2>10. Sum(g, left) = Sum(f, left) BY <2>5, <2>9, SumSame
  <2>11. Sum(g, left \cup {new}) = g[new] + Sum(g, (left \cup {new}) \ {new})
    <3> DEFINE U == left \cup {new}
    <3>1. new \in U /\ Natural(g, U) BY <2>4
    <3> HIDE DEF U
    <3>2. Sum(g, U) = g[new] + Sum(g, U \ {new}) BY <3>1, SumWithout
    <3> QED BY <3>2 DEF U
  <2>12. (left \cup {new}) \ {new} = left BY <1>11
  <2>13. PICK a \in Nat, b \in Nat : a = Sum(f, out) /\ b = Sum(f, left) BY <2>9
  <2>14. bytes' = b + charge BY <1>1, <2>6, <2>7, <2>8, <2>13
  <2>15. Sum(g, DOMAIN sl2) = charge + b BY <2>3, <2>5, <2>10, <2>11, <2>12, <2>13
  <2> QED BY <1>8, <2>14, <2>15 DEF g
<1>20. Recent'
  <2> SUFFICES ASSUME NEW j \in DOMAIN slots'
               PROVE  slots'[j].used <= tick' /\ Len(slots'[j].tokens) >= MinTokens
    BY DEF Recent
  <2>1. CASE j = new BY <1>1, <1>5, <1>8, <1>11, <2>1
  <2>2. CASE j # new
    <3>1. j \in left /\ slots'[j] = slots[j] BY <1>8, <1>11, <2>2
    <3>2. j \in DOMAIN slots BY <1>10, <3>1
    <3>3. slots[j].used \in Nat /\ slots[j].used < Now BY <1>6, <3>2 DEF Entries
    <3> QED BY <1>1, <3>1, <3>2, <3>3 DEF Recent
  <2> QED BY <2>1, <2>2
<1>21. Priced' BY <1>8, <1>12, <1>19 DEF Priced
<1> QED BY <1>16, <1>18, <1>20, <1>21

-----------------------------------------------------------------------------
(* The keys.  A chain of hashes over the blocks exists, so that BlockKeys  *)
(* is what its definition says.                                            *)
Part(t, d) == SubSeq(t, (d - 1) * Block + 1, d * Block)
IsChain(h, m, t, n) ==
  h = [d \in 0 .. n |-> IF d = 0 THEN Seed(m) ELSE Chain(h[d - 1], Part(t, d))]

(* Such a chain is defined link by link. *)
LEMMA ChainExists ==
  ASSUME NEW m, NEW t, NEW n \in Nat
  PROVE  \E h : IsChain(h, m, t, n)
<1> DEFINE bad == {k \in Nat : ~\E h : IsChain(h, m, t, k)}
<1> SUFFICES ASSUME bad # {} PROVE FALSE OBVIOUS
<1>1. PICK k \in bad : \A j \in bad : k <= j
  <2>1. bad \in SUBSET Nat OBVIOUS
  <2> HIDE DEF bad
  <2> QED BY <2>1, MinIsLeast
<1>2. k # 0
  <2> DEFINE h == [d \in 0 .. 0 |-> Seed(m)]
             g == [d \in 0 .. 0 |-> IF d = 0 THEN Seed(m) ELSE Chain(h[d - 1], Part(t, d))]
  <2>1. \A d \in 0 .. 0 : h[d] = g[d] OBVIOUS
  <2>2. h = [d \in 0 .. 0 |-> h[d]] /\ g = [d \in 0 .. 0 |-> g[d]] OBVIOUS
  <2>3. h = g
    <3> HIDE DEF h, g
    <3> QED BY <2>1, <2>2
  <2>4. IsChain(h, m, t, 0) BY <2>3 DEF IsChain
  <2> HIDE DEF h
  <2> QED BY <1>1, <2>4
<1>3. PICK j \in Nat : k = j + 1 BY <1>1, <1>2
<1>4. PICK h : IsChain(h, m, t, j)
  <2>1. j \notin bad BY <1>1, <1>3
  <2> QED BY <2>1
<1> DEFINE g == [d \in 0 .. j + 1 |-> IF d = 0 THEN Seed(m) ELSE Chain(h[d - 1], Part(t, d))]
           f == [d \in 0 .. j + 1 |-> IF d = 0 THEN Seed(m) ELSE Chain(g[d - 1], Part(t, d))]
<1>5. ASSUME NEW d \in 0 .. j PROVE g[d] = h[d]
  <2>1. d \in 0 .. j + 1 BY <1>3
  <2>2. g[d] = IF d = 0 THEN Seed(m) ELSE Chain(h[d - 1], Part(t, d)) BY <2>1
  <2>3. h[d] = IF d = 0 THEN Seed(m) ELSE Chain(h[d - 1], Part(t, d)) BY <1>4 DEF IsChain
  <2> QED BY <2>2, <2>3
<1>6. ASSUME NEW d \in 0 .. j + 1 PROVE g[d] = f[d]
  <2>1. CASE d = 0 BY <2>1
  <2>2. CASE d # 0
    <3>1. d - 1 \in 0 .. j BY <1>3, <2>2
    <3>2. g[d - 1] = h[d - 1] BY <1>5, <3>1
    <3>3. g[d] = Chain(h[d - 1], Part(t, d)) BY <2>2
    <3>4. f[d] = Chain(g[d - 1], Part(t, d)) BY <2>2
    <3> HIDE DEF g, f
    <3> QED BY <3>2, <3>3, <3>4
  <2> QED BY <2>1, <2>2
<1>7. g = [d \in 0 .. j + 1 |-> g[d]] /\ f = [d \in 0 .. j + 1 |-> f[d]] OBVIOUS
<1>8. g = f
  <2> HIDE DEF g, f
  <2> QED BY <1>6, <1>7
<1>9. IsChain(g, m, t, k) BY <1>3, <1>8 DEF IsChain
<1> HIDE DEF g, f
<1> QED BY <1>1, <1>9

(* Every key is the chain of the one before and its block. *)
LEMMA KeysAre ==
  ASSUME NEW m, NEW t \in Seq(Int), NEW d \in 1 .. Blocks(t)
  PROVE  BlockKeys(m, t)[d] =
           Chain(IF d = 1 THEN Seed(m) ELSE BlockKeys(m, t)[d - 1], Part(t, d))
<1>1. PICK n \in Nat : n = Blocks(t) BY KeysShape
<1> DEFINE h == CHOOSE h : IsChain(h, m, t, Blocks(t))
           k == [e \in 1 .. n |-> h[e]]
<1>2. BlockKeys(m, t) = k
  <2>1. BlockKeys(m, t) = [e \in 1 .. Blocks(t) |-> h[e]]
    BY DEF BlockKeys, IsChain, Part, Blocks
  <2> HIDE DEF h
  <2> QED BY <1>1, <2>1
<1>3. IsChain(h, m, t, n)
  <2>1. IsChain(h, m, t, Blocks(t)) BY <1>1, ChainExists
  <2> HIDE DEF h
  <2> QED BY <1>1, <2>1
<1> HIDE DEF h
<1>4. d \in 1 .. n BY <1>1
<1>5. h[0] = Seed(m) BY <1>3 DEF IsChain
<1>6. h[d] = Chain(h[d - 1], Part(t, d)) BY <1>3, <1>4 DEF IsChain
<1>7. k[d] = h[d] BY <1>4
<1>8. d # 1 => k[d - 1] = h[d - 1]
  <2> SUFFICES ASSUME d # 1 PROVE k[d - 1] = h[d - 1] OBVIOUS
  <2>1. d - 1 \in 1 .. n BY <1>4
  <2> QED BY <2>1
<1>9. (IF d = 1 THEN Seed(m) ELSE k[d - 1]) = h[d - 1] BY <1>4, <1>5, <1>8
<1> HIDE DEF k
<1> QED BY <1>2, <1>6, <1>7, <1>9

(* Prefixes. *)
LEMMA PrefixIs ==
  ASSUME NEW s \in Seq(Int), NEW t \in Seq(Int)
  PROVE  IsPrefix(s, t) <=> Len(s) <= Len(t) /\ \A i \in 1 .. Len(s) : s[i] = t[i]
<1>1. PICK n \in Nat : n = Len(s) BY LenProperties
<1>2. PICK k \in Nat : k = Len(t) BY LenProperties
<1>3. \A i \in 1 .. n : s[i] \in Int BY <1>1, ElementOfSeq
<1>4. \A i \in 1 .. k : t[i] \in Int BY <1>2, ElementOfSeq
<1>5. ASSUME n <= k
      PROVE  SubSeq(s, 1, n) = SubSeq(t, 1, n) <=> \A i \in 1 .. n : s[i] = t[i]
  <2> DEFINE a == SubSeq(s, 1, n)
             b == SubSeq(t, 1, n)
  <2>1. \A i \in 1 .. n : t[i] \in Int BY <1>4, <1>5
  <2>2. a \in Seq(Int) /\ Len(a) = n /\ \A i \in 1 .. n : a[i] = s[i]
    <3>1. /\ a \in Seq(Int) /\ Len(a) = (IF 1 <= n THEN n - 1 + 1 ELSE 0)
          /\ \A i \in 1 .. n - 1 + 1 : a[i] = s[1 + i - 1]
      BY <1>3, SubSeqProperties
    <3> HIDE DEF a
    <3> QED BY <3>1
  <2>3. b \in Seq(Int) /\ Len(b) = n /\ \A i \in 1 .. n : b[i] = t[i]
    <3>1. /\ b \in Seq(Int) /\ Len(b) = (IF 1 <= n THEN n - 1 + 1 ELSE 0)
          /\ \A i \in 1 .. n - 1 + 1 : b[i] = t[1 + i - 1]
      BY <2>1, SubSeqProperties
    <3> HIDE DEF b
    <3> QED BY <3>1
  <2> HIDE DEF a, b
  <2>4. ASSUME \A i \in 1 .. n : s[i] = t[i] PROVE a = b
    <3>1. \A i \in 1 .. n : a[i] = b[i] BY <2>2, <2>3, <2>4
    <3> QED BY <2>2, <2>3, <3>1, SeqEqual
  <2>5. ASSUME a = b PROVE \A i \in 1 .. n : s[i] = t[i] BY <2>2, <2>3, <2>5
  <2> QED BY <2>4, <2>5 DEF a, b
<1>6. IsPrefix(s, t) <=> n <= k /\ SubSeq(s, 1, n) = SubSeq(t, 1, n) BY <1>1, <1>2 DEF IsPrefix
<1> QED BY <1>1, <1>2, <1>5, <1>6

(* Division rounds down and is monotone. *)
LEMMA DivBounds ==
  ASSUME NEW a \in Nat, NEW c \in Nat, a <= c, NEW b \in Nat \ {0}
  PROVE  /\ (a \div b) \in Nat /\ (a \div b) * b <= a
         /\ (a \div b) <= (c \div b)
OBVIOUS

(* A prefix has the keys of its blocks. *)
LEMMA KeysOfPrefix ==
  ASSUME NEW m, NEW s \in Seq(Int), NEW t \in Seq(Int), IsPrefix(s, t)
  PROVE  /\ Blocks(s) <= Blocks(t)
         /\ \A d \in 1 .. Blocks(s) : BlockKeys(m, s)[d] = BlockKeys(m, t)[d]
<1>1. Block \in Nat \ {0} BY CacheAssumption
<1>2. PICK l \in Nat : l = Len(s) BY LenProperties
<1>3. Len(t) \in Nat /\ l <= Len(t) /\ \A i \in 1 .. l : s[i] = t[i]
  BY <1>2, PrefixIs, LenProperties
<1>4. PICK n \in Nat : n = Blocks(s) /\ n * Block <= l
  <2>1. (l \div Block) \in Nat /\ (l \div Block) * Block <= l BY <1>1, DivBounds
  <2>2. Blocks(s) = l \div Block BY <1>2 DEF Blocks
  <2> QED BY <2>1, <2>2
<1>5. PICK k \in Nat : k = Blocks(t) /\ n <= k
  <2>1. PICK c \in Nat : c = Len(t) /\ l <= c BY <1>3
  <2>2. (l \div Block) <= (c \div Block) BY <1>1, <2>1, DivBounds
  <2>3. Blocks(s) = l \div Block /\ Blocks(t) = c \div Block BY <1>2, <2>1 DEF Blocks
  <2>4. Blocks(t) \in Nat BY KeysShape
  <2> QED BY <1>4, <2>2, <2>3, <2>4
<1>6. ASSUME NEW d \in 1 .. n PROVE Part(s, d) = Part(t, d)
  <2>1. PICK p \in Nat : p = (d - 1) * Block + 1 /\ p >= 1 BY <1>1
  <2>2. d * Block <= n * Block BY <1>1
  <2>3. PICK q \in Nat : q = d * Block /\ q <= l BY <1>1, <1>2, <1>4, <2>2
  <2> DEFINE a == SubSeq(s, p, q)
             b == SubSeq(t, p, q)
  <2>4. \A i \in p .. q : s[i] \in Int /\ t[i] \in Int /\ s[i] = t[i]
    <3> TAKE i \in p .. q
    <3>1. i \in 1 .. l /\ i \in 1 .. Len(t) BY <1>3, <2>1, <2>3
    <3> QED BY <1>2, <1>3, <3>1, ElementOfSeq
  <2>5. /\ a \in Seq(Int) /\ Len(a) = (IF p <= q THEN q - p + 1 ELSE 0)
        /\ \A i \in 1 .. q - p + 1 : a[i] = s[p + i - 1]
    BY <2>4, SubSeqProperties
  <2>6. /\ b \in Seq(Int) /\ Len(b) = (IF p <= q THEN q - p + 1 ELSE 0)
        /\ \A i \in 1 .. q - p + 1 : b[i] = t[p + i - 1]
    BY <2>4, SubSeqProperties
  <2> HIDE DEF a, b
  <2>7. \A i \in 1 .. Len(a) : a[i] = b[i]
    <3> TAKE i \in 1 .. Len(a)
    <3>1. i \in 1 .. q - p + 1 /\ p + i - 1 \in p .. q BY <2>5
    <3> QED BY <2>4, <2>5, <2>6, <3>1
  <2>8. a = b BY <2>5, <2>6, <2>7, SeqEqual
  <2> QED BY <2>1, <2>3, <2>8 DEF a, b, Part
<1> DEFINE bad == {d \in 1 .. n : BlockKeys(m, s)[d] # BlockKeys(m, t)[d]}
<1>7. bad = {}
  <2> SUFFICES ASSUME bad # {} PROVE FALSE OBVIOUS
  <2>1. PICK d \in bad : \A e \in bad : d <= e
    <3>1. bad \in SUBSET Nat OBVIOUS
    <3> HIDE DEF bad
    <3> QED BY <3>1, MinIsLeast
  <2>2. d \in 1 .. n /\ d \in 1 .. Blocks(s) /\ d \in 1 .. Blocks(t) BY <1>4, <1>5, <2>1
  <2>3. d # 1 => BlockKeys(m, s)[d - 1] = BlockKeys(m, t)[d - 1]
    <3> SUFFICES ASSUME d # 1 PROVE BlockKeys(m, s)[d - 1] = BlockKeys(m, t)[d - 1] OBVIOUS
    <3>1. d - 1 \in 1 .. n /\ ~(d <= d - 1) BY <2>2
    <3> QED BY <2>1, <3>1
  <2>4. BlockKeys(m, s)[d] = Chain(IF d = 1 THEN Seed(m) ELSE BlockKeys(m, s)[d - 1], Part(s, d))
    BY <2>2, KeysAre
  <2>5. BlockKeys(m, t)[d] = Chain(IF d = 1 THEN Seed(m) ELSE BlockKeys(m, t)[d - 1], Part(t, d))
    BY <2>2, KeysAre
  <2>6. Part(s, d) = Part(t, d) BY <1>6, <2>2
  <2>7. BlockKeys(m, s)[d] = BlockKeys(m, t)[d] BY <2>3, <2>4, <2>5, <2>6
  <2> QED BY <2>1, <2>7
<1> QED BY <1>4, <1>5, <1>7

(* The entries a request can start from. *)
Starts(r, maxLen) ==
  {id \in DOMAIN slots :
     /\ slots[id].model = r.model
     /\ Len(slots[id].tokens) <= maxLen /\ IsPrefix(slots[id].tokens, r.prompt)}

(* Two of them agree on the shorter one's keys. *)
LEMMA KeysShared ==
  ASSUME Stored, Indexed, NEW r, r.prompt \in Seq(Int), NEW maxLen,
         NEW u \in Starts(r, maxLen), NEW v \in Starts(r, maxLen),
         Len(slots[v].tokens) <= Len(slots[u].tokens)
  PROVE  Keys(v) \subseteq Keys(u)
<1> DEFINE s == slots[v].tokens
           t == slots[u].tokens
           p == r.prompt
           m == r.model
<1>1. /\ s \in Seq(Int) /\ t \in Seq(Int) /\ slots[u].model = m /\ slots[v].model = m
      /\ IsPrefix(s, p) /\ IsPrefix(t, p) /\ p \in Seq(Int)
  BY DEF Starts, Stored, Entries
<1>2. slots[u].keys = BlockKeys(m, t) /\ slots[v].keys = BlockKeys(m, s)
  BY <1>1 DEF Starts, Indexed
<1> HIDE DEF s, t, p
<1>3. Len(s) <= Len(t) BY DEF s, t
<1>4. Len(s) \in Nat /\ Len(t) \in Nat BY <1>1, LenProperties
<1>5. /\ \A i \in 1 .. Len(s) : s[i] = p[i]
      /\ \A i \in 1 .. Len(t) : t[i] = p[i]
  BY <1>1, PrefixIs
<1>6. \A i \in 1 .. Len(s) : s[i] = t[i]
  <2> TAKE i \in 1 .. Len(s)
  <2>1. i \in 1 .. Len(t) BY <1>3, <1>4
  <2> QED BY <1>5, <2>1
<1>7. IsPrefix(s, t) BY <1>1, <1>3, <1>6, PrefixIs
<1>8. /\ Blocks(s) <= Blocks(t) /\ Blocks(s) \in Nat /\ Blocks(t) \in Nat
      /\ \A d \in 1 .. Blocks(s) : BlockKeys(m, s)[d] = BlockKeys(m, t)[d]
      /\ DOMAIN BlockKeys(m, s) = 1 .. Blocks(s) /\ DOMAIN BlockKeys(m, t) = 1 .. Blocks(t)
  BY <1>1, <1>7, KeysOfPrefix, KeysShape
<1> QED BY <1>2, <1>8 DEF Keys

(* Find looks under the deepest key that has a usable entry: the longest   *)
(* entry is listed there, whatever else is.                                *)
LEMMA FindLongest ==
  ASSUME Stored, Indexed, NoId \notin Nat, NEW r, r.prompt \in Seq(Int),
         NEW maxLen \in 0 .. Len(r.prompt)
  PROVE  /\ Starts(r, maxLen) = {} => Find(r, maxLen) = NoId
         /\ Starts(r, maxLen) # {} =>
              /\ Find(r, maxLen) \in Starts(r, maxLen)
              /\ \A j \in Starts(r, maxLen) :
                   Len(slots[j].tokens) <= Len(slots[Find(r, maxLen)].tokens)
<1> DEFINE U == Starts(r, maxLen)
           p == r.prompt
           q == SubSeq(p, 1, maxLen)
           keys == BlockKeys(r.model, q)
           at(d) == Usable(index[keys[d]], r, maxLen)
           good == {d \in Depths(keys) : at(d) # {}}
           found == Candidates(r, maxLen)
<1>1. found = IF good # {} THEN at(Max(good)) ELSE Usable(short, r, maxLen)
  BY DEF Candidates
<1>2. \A ids : Usable(ids, r, maxLen) = U \cap ids BY DEF Usable, Starts
<1>3. p \in Seq(Int) /\ Len(p) \in Nat /\ maxLen \in Nat /\ maxLen <= Len(p) BY LenProperties
<1>4. q \in Seq(Int) /\ Len(q) = maxLen /\ \A i \in 1 .. maxLen : q[i] = p[i]
  <2> HIDE DEF p
  <2>1. \A i \in 1 .. maxLen : p[i] \in Int BY <1>3, ElementOfSeq
  <2>2. /\ q \in Seq(Int) /\ Len(q) = (IF 1 <= maxLen THEN maxLen - 1 + 1 ELSE 0)
        /\ \A i \in 1 .. maxLen - 1 + 1 : q[i] = p[1 + i - 1]
    BY <1>3, <2>1, SubSeqProperties
  <2> HIDE DEF q
  <2> QED BY <1>3, <2>2
<1>5. PICK n \in Nat : n = Blocks(q) /\ DOMAIN keys = 1 .. n BY <1>4, KeysShape
<1> HIDE DEF q, keys, p
<1>6. good # {} => Max(good) \in good
  <2> SUFFICES ASSUME good # {} PROVE Max(good) \in good OBVIOUS
  <2> DEFINE u == [d \in good |-> d]
  <2>1. good \subseteq 1 .. n BY <1>5 DEF Depths
  <2> HIDE DEF good
  <2>2. IsFiniteSet(1 .. n)
    <3>1. 1 \in Int /\ n \in Int OBVIOUS
    <3> QED BY <3>1, FS_Interval
  <2>3. IsFiniteSet(good) /\ \A d \in good : u[d] \in Nat
    <3>1. IsFiniteSet(good) BY <2>1, <2>2, FS_Subset
    <3> QED BY <2>1, <3>1
  <2>4. PICK x \in good : \A y \in good : u[y] <= u[x]
    <3> HIDE DEF u
    <3> QED BY <2>3, LastOne
  <2>5. \A y \in good : x >= y BY <2>1, <2>4
  <2> QED BY <2>5 DEF Max
<1>7. found \subseteq U
  <2>1. PICK ids : found = Usable(ids, r, maxLen) BY <1>1, Zenon
  <2> HIDE DEF found
  <2> QED BY <1>2, <2>1
<1>8. /\ U \subseteq DOMAIN slots
      /\ \A id \in U : Len(slots[id].tokens) <= maxLen /\ slots[id].tokens \in Seq(Int)
  BY DEF Starts, Stored, Entries
<1> HIDE DEF found, good
<1>9. Find(r, maxLen) = IF found = {} THEN NoId ELSE Longest(found) BY DEF Find, found
<1>10. U # {} => \E u \in U : u \in found /\ \A j \in U : Len(slots[j].tokens) <= Len(slots[u].tokens)
  <2> SUFFICES ASSUME U # {}
               PROVE  \E u \in U : u \in found
                        /\ \A j \in U : Len(slots[j].tokens) <= Len(slots[u].tokens)
    OBVIOUS
  <2>1. PICK u \in U : \A j \in U : Len(slots[j].tokens) <= Len(slots[u].tokens)
    <3> HIDE DEF U
    <3>1. U \in SUBSET DOMAIN slots /\ \A id \in U : Len(slots[id].tokens) <= maxLen BY <1>8
    <3> QED BY <1>3, <3>1, LongestIsOne
  <2>2. \A v \in U : Keys(v) \subseteq Keys(u) BY <2>1, KeysShared
  <2>3. CASE good # {}
    <3> DEFINE d == Max(good)
    <3>1. d \in Depths(keys) /\ at(d) # {} BY <1>6, <2>3 DEF good
    <3>2. PICK v \in U : v \in index[keys[d]] BY <1>2, <3>1
    <3>3. keys[d] \in DOMAIN index
      <4>1. d \in 1 .. n /\ \A e \in 1 .. d : keys[e] \in DOMAIN index BY <1>5, <3>1 DEF Depths
      <4> HIDE DEF d
      <4>2. d \in 1 .. d BY <4>1
      <4> QED BY <4>1, <4>2
    <3> HIDE DEF d, U
    <3>4. v \in DOMAIN slots /\ u \in DOMAIN slots BY <1>8
    <3>5. keys[d] \in Keys(v) BY <3>2, <3>3 DEF Indexed
    <3>6. keys[d] \in Keys(u) BY <2>2, <3>5
    <3>7. u \in index[keys[d]] BY <3>3, <3>4, <3>6 DEF Indexed
    <3>8. u \in at(d) BY <1>2, <3>7
    <3>9. u \in found BY <1>1, <2>3, <3>8 DEF d
    <3> QED BY <2>1, <3>9
  <2>4. CASE good = {}
    <3> DEFINE t == slots[u].tokens
    <3>1. /\ t \in Seq(Int) /\ Len(t) \in Nat /\ Len(t) <= maxLen /\ IsPrefix(t, p)
          /\ u \in DOMAIN slots /\ slots[u].model = r.model
          /\ slots[u].keys = BlockKeys(r.model, t)
      BY <1>8, LenProperties DEF Starts, Indexed, p
    <3> HIDE DEF t
    <3>2. IsPrefix(t, q)
      <4>1. \A i \in 1 .. Len(t) : t[i] = p[i] BY <1>3, <3>1, PrefixIs
      <4>2. \A i \in 1 .. Len(t) : t[i] = q[i]
        <5> TAKE i \in 1 .. Len(t)
        <5>1. i \in 1 .. maxLen BY <3>1
        <5> QED BY <1>4, <4>1, <5>1
      <4> QED BY <1>4, <3>1, <4>2, PrefixIs
    <3>3. PICK k \in Nat : /\ k = Blocks(t) /\ k <= n
                           /\ \A d \in 1 .. k : BlockKeys(r.model, t)[d] = keys[d]
      <4>1. /\ Blocks(t) <= Blocks(q) /\ Blocks(t) \in Nat
            /\ \A d \in 1 .. Blocks(t) : BlockKeys(r.model, t)[d] = BlockKeys(r.model, q)[d]
        BY <1>4, <3>1, <3>2, KeysOfPrefix, KeysShape
      <4> QED BY <1>5, <4>1 DEF keys
    <3>4. DOMAIN slots[u].keys = 1 .. k /\ (slots[u].keys = <<>> <=> k = 0)
      BY <3>1, <3>3, KeysShape
    <3>5. k = 0
      <4> SUFFICES ASSUME k # 0 PROVE FALSE OBVIOUS
      <4>1. \A d \in 1 .. k : keys[d] \in Keys(u) BY <3>1, <3>3, <3>4 DEF Keys
      <4>2. \A d \in 1 .. k : keys[d] \in DOMAIN index BY <3>1, <4>1 DEF Indexed
      <4>3. k \in Depths(keys)
        <5>1. k \in DOMAIN keys BY <1>5, <3>3
        <5> QED BY <4>2, <5>1 DEF Depths
      <4>4. k \in 1 .. k OBVIOUS
      <4>5. u \in index[keys[k]] BY <3>1, <4>1, <4>2, <4>4 DEF Indexed
      <4>6. u \in at(k) BY <1>2, <4>5
      <4> QED BY <2>4, <4>3, <4>6 DEF good
    <3>6. u \in short BY <3>1, <3>4, <3>5 DEF Indexed
    <3>7. u \in found BY <1>1, <1>2, <2>4, <3>6
    <3> QED BY <2>1, <3>7
  <2> QED BY <2>3, <2>4
<1> HIDE DEF U
<1>11. CASE U = {} BY <1>7, <1>9, <1>11 DEF U
<1>12. CASE U # {}
  <2>1. PICK u \in U : u \in found /\ \A j \in U : Len(slots[j].tokens) <= Len(slots[u].tokens)
    BY <1>10, <1>12
  <2> DEFINE f == Longest(found)
  <2>2. /\ f \in found
        /\ \A j \in found : Len(slots[j].tokens) <= Len(slots[f].tokens)
    <3>1. found \in SUBSET DOMAIN slots /\ found # {} /\ \A id \in found : Len(slots[id].tokens) <= maxLen
      BY <1>7, <1>8, <2>1
    <3> QED BY <1>3, <3>1, LongestIsOne
  <2>3. Find(r, maxLen) = f BY <1>9, <2>1
  <2> HIDE DEF f
  <2>4. f \in U BY <1>7, <2>2
  <2>5. ASSUME NEW j \in U PROVE Len(slots[j].tokens) <= Len(slots[f].tokens)
    <3>1. Len(slots[j].tokens) <= Len(slots[u].tokens) BY <2>1
    <3>2. Len(slots[u].tokens) <= Len(slots[f].tokens) BY <2>1, <2>2
    <3>3. Len(slots[j].tokens) \in Nat /\ Len(slots[u].tokens) \in Nat /\ Len(slots[f].tokens) \in Nat
      BY <1>8, <2>4, LenProperties
    <3> QED BY <3>1, <3>2, <3>3
  <2> QED BY <1>12, <2>3, <2>4, <2>5 DEF U
<1> QED BY <1>11, <1>12

-----------------------------------------------------------------------------
(* The refinement.  Only boundaries long enough are checked and inserted.  *)
LongEnough == \A c \in Client : \A b \in due[c] \cup snaps[c] : b >= MinTokens
ListInv == Priced /\ Recent
LruInv == CacheInv /\ ListInv /\ LongEnough

(* What a step must be to the bounded map. *)
Mapped == [Lru!LruNext]_(Lru!lruVars)

(* The list depends on the entries only. *)
LEMMA ListFrame ==
  ASSUME ListInv, UNCHANGED <<slots, bytes, tick>>
  PROVE  ListInv' /\ ByUse' = ByUse
BY DEF ListInv, Priced, Recent, ByUse, Order

(* PromptLru's usable entries are those Find chooses from. *)
LEMMA UsableIs ==
  ASSUME StoreInv, NEW r \in Request, NEW id \in DOMAIN slots
  PROVE  Lru!UsableBy(View(slots[id]), r) <=> id \in Starts(r, Len(r.prompt) - 1)
<1> DEFINE t == slots[id].tokens
           p == r.prompt
<1>1. t \in Seq(Int) /\ p \in Seq(Int) BY CacheAssumption DEF StoreInv, Stored, Entries
<1>2. View(slots[id]).tokens = t /\ View(slots[id]).model = slots[id].model BY DEF View
<1> HIDE DEF t, p
<1>3. Len(t) \in Nat /\ Len(p) \in Nat BY <1>1, LenProperties
<1>4. Lru!UsableBy(View(slots[id]), r) <=>
        slots[id].model = r.model /\ Len(t) < Len(p) /\ IsPrefix(t, p)
  BY <1>2 DEF Lru!UsableBy, Lru!IsPrefix, IsPrefix, p
<1>5. id \in Starts(r, Len(p) - 1) <=>
        slots[id].model = r.model /\ Len(t) <= Len(p) - 1 /\ IsPrefix(t, p)
  BY DEF Starts, t, p
<1>6. Len(t) < Len(p) <=> Len(t) <= Len(p) - 1 BY <1>3
<1> QED BY <1>4, <1>5, <1>6 DEF p

(* A request that looks up has asked nothing before, ... *)
LEMMA AskMaps ==
  ASSUME ClientInv, NEW c \in Client, NEW r \in Request, Lookup(c, r)
  PROVE  Lru!Asks(c, r)
<1>1. /\ pc[c] = "idle" /\ pc' = [pc EXCEPT ![c] = "found"] /\ req' = [req EXCEPT ![c] = r]
  BY DEF Lookup
<1>2. Answered[c] = NoRequest
  BY <1>1 DEF Answered
<1>3. ASSUME NEW d \in Client
      PROVE  Answered'[d] = IF d = c THEN r ELSE Answered[d]
  BY <1>1 DEF ClientInv, ClientTypes, Answered
<1>4. Answered' = [Answered EXCEPT ![c] = r]
  BY <1>3 DEF Answered
<1> QED
  BY <1>2, <1>4 DEF Lru!Asks

(* ... and one between its answer and its restoration has. *)
LEMMA ReleaseMaps ==
  ASSUME ClientInv, NEW c \in Client, NEW restored \in BOOLEAN, Restore(c, restored)
  PROVE  Answered[c] # NoRequest /\ Answered' = [Answered EXCEPT ![c] = NoRequest]
<1>1. /\ pc[c] = "found" /\ pc' = [pc EXCEPT ![c] = "check"] /\ UNCHANGED req
  BY DEF Restore
<1>2. Answered[c] = req[c] /\ req[c] \in Request
  BY <1>1 DEF Answered, ClientInv, ClientSteps
<1>3. ASSUME NEW d \in Client
      PROVE  Answered'[d] = IF d = c THEN NoRequest ELSE Answered[d]
  BY <1>1 DEF ClientInv, ClientTypes, Answered
<1>4. Answered' = [Answered EXCEPT ![c] = NoRequest]
  BY <1>3 DEF Answered
<1> QED
  BY <1>2, <1>4, CacheAssumption

(* The other steps of a request ask nothing. *)
LEMMA ContinueAsks ==
  ASSUME ClientInv, NEW c \in Client, pc[c] \in {"check", "fill"}, NEW left, Continue(c, left)
  PROVE  Answered' = Answered
<1>1. /\ pc' = [pc EXCEPT ![c] = IF left = {} THEN "idle" ELSE "fill"]
      /\ req' = [req EXCEPT ![c] = IF left = {} THEN NoRequest ELSE @]
  BY DEF Continue
<1>2. ASSUME NEW d \in Client PROVE Answered'[d] = Answered[d]
  BY <1>1 DEF ClientInv, ClientTypes, Answered
<1> QED
  BY <1>2 DEF Answered

(* lookup is a hit or a miss. *)
LEMMA LookupMaps ==
  ASSUME LruInv, NEW c \in Client, NEW r \in Request, Lookup(c, r)
  PROVE  LruInv' /\ Mapped
<1> DEFINE maxLen == Len(r.prompt) - 1
           id == IF maxLen < MinTokens THEN NoId ELSE Find(r, maxLen)
<1>1. /\ pc[c] = "idle" /\ UNCHANGED <<bytes, due, snaps>>
      /\ IF id = NoId THEN UNCHANGED <<got, slots, tick>>
         ELSE Touch(id) /\ got' = [got EXCEPT ![c] = Found(id)]
  BY DEF Lookup
<1>2. CacheInv' BY LookupKeeps DEF LruInv
<1>3. LongEnough' BY <1>1 DEF LongEnough, LruInv
<1>4. r.prompt \in Seq(Int) /\ Len(r.prompt) \in Nat /\ Len(r.prompt) > 0
  <2> DEFINE p == r.prompt
  <2>1. p \in Seq(Int) /\ p # <<>> BY CacheAssumption
  <2> HIDE DEF p
  <2>2. Len(p) \in Nat /\ Len(p) > 0 BY <2>1, EmptySeq, LenProperties
  <2> QED BY <2>1, <2>2 DEF p
<1>5. /\ Stored /\ Indexed /\ StoreInv /\ NoId \notin Nat /\ MinTokens \in Nat
      /\ DOMAIN slots \subseteq Nat
  BY CacheAssumption DEF LruInv, CacheInv, StoreInv, Stored
<1>6. maxLen \in 0 .. Len(r.prompt) BY <1>4
<1>7. /\ Starts(r, maxLen) = {} => Find(r, maxLen) = NoId
      /\ Starts(r, maxLen) # {} =>
           /\ Find(r, maxLen) \in Starts(r, maxLen)
           /\ \A j \in Starts(r, maxLen) :
                Len(slots[j].tokens) <= Len(slots[Find(r, maxLen)].tokens)
  BY <1>4, <1>5, <1>6, FindLongest
<1>8. \A j \in DOMAIN slots : Lru!UsableBy(View(slots[j]), r) <=> j \in Starts(r, maxLen)
  BY <1>5, UsableIs
<1> HIDE DEF maxLen
<1>9. \A i \in 1 .. Len(ByUse) : \E j \in DOMAIN slots : ByUse[i] = View(slots[j])
  BY ListOfEntries DEF LruInv, ListInv
<1>10. Starts(r, maxLen) \subseteq DOMAIN slots BY DEF Starts
<1>11. Lru!Asks(c, r) BY AskMaps DEF LruInv, CacheInv
<1>12. CASE id = NoId
  <2>1. UNCHANGED <<got, slots, tick>> BY <1>1, <1>12
  <2>2. ListInv' /\ ByUse' = ByUse BY <1>1, <2>1, ListFrame DEF LruInv
  <2>3. Starts(r, maxLen) = {}
    <3> SUFFICES ASSUME NEW j \in Starts(r, maxLen) PROVE FALSE OBVIOUS
    <3>1. CASE maxLen < MinTokens
      <4>1. slots[j].tokens \in Seq(Int) BY <1>5, <1>10 DEF Stored, Entries
      <4>2. Len(slots[j].tokens) >= MinTokens /\ Len(slots[j].tokens) <= maxLen
        BY <1>10 DEF Starts, LruInv, ListInv, Recent
      <4>3. Len(slots[j].tokens) \in Nat /\ maxLen \in Int
        BY <1>6, <4>1, LenProperties DEF maxLen
      <4> QED BY <1>5, <3>1, <4>2, <4>3
    <3>2. CASE ~(maxLen < MinTokens)
      <4>1. Find(r, maxLen) \in Nat BY <1>5, <1>7, <1>10
      <4> QED BY <1>5, <1>12, <3>2, <4>1
    <3> QED BY <3>1, <3>2
  <2>4. \A i \in 1 .. Len(ByUse) : ~Lru!UsableBy(ByUse[i], r) BY <1>8, <1>9, <2>3
  <2>5. got[c] = NoEntry /\ got = [d \in Client |-> got[d]]
    BY <1>1 DEF LruInv, CacheInv, ClientInv, ClientTypes, ClientSteps
  <2>6. got' = [got EXCEPT ![c] = NoEntry] BY <2>1, <2>5
  <2>7. Lru!LookupMiss(c, r) BY <1>11, <2>2, <2>4, <2>6 DEF Lru!LookupMiss
  <2> QED BY <1>2, <1>3, <2>2, <2>7 DEF LruInv, Mapped, Lru!LruNext
<1>13. CASE id # NoId
  <2>1. id = Find(r, maxLen) /\ Starts(r, maxLen) # {} BY <1>7, <1>13
  <2>2. /\ id \in Starts(r, maxLen) /\ id \in DOMAIN slots
        /\ \A j \in Starts(r, maxLen) : Len(slots[j].tokens) <= Len(slots[id].tokens)
    BY <1>7, <1>10, <2>1
  <2>3. Touch(id) /\ got' = [got EXCEPT ![c] = Found(id)] BY <1>1, <1>13
  <2> HIDE DEF id
  <2>4. /\ Priced' /\ Recent'
        /\ \E k \in 1 .. Len(ByUse) : ByUse[k] = View(slots[id]) /\ ByUse' = Lru!Refreshed(k)
    BY <1>1, <1>5, <2>2, <2>3, TouchMaps DEF LruInv, ListInv
  <2>5. PICK k \in 1 .. Len(ByUse) : ByUse[k] = View(slots[id]) /\ ByUse' = Lru!Refreshed(k)
    BY <2>4
  <2>6. Lru!UsableBy(ByUse[k], r) BY <1>8, <2>2, <2>5
  <2>7. \A x : View(x).tokens = x.tokens /\ View(x).model = x.model BY DEF View
  <2>8. ASSUME NEW i \in 1 .. Len(ByUse), Lru!UsableBy(ByUse[i], r)
        PROVE  Len(ByUse[i].tokens) <= Len(ByUse[k].tokens)
    <3>1. PICK j \in DOMAIN slots : ByUse[i] = View(slots[j]) BY <1>9
    <3>2. j \in Starts(r, maxLen) BY <1>8, <2>8, <3>1
    <3> QED BY <2>2, <2>5, <2>7, <3>1, <3>2
  <2>9. Lru!IsLongest(k, r) BY <2>6, <2>8 DEF Lru!IsLongest
  <2>10. got' = [got EXCEPT ![c] = [model |-> ByUse[k].model, tokens |-> ByUse[k].tokens]]
    BY <2>3, <2>5, <2>7 DEF Found
  <2>11. Lru!LookupHit(c, r) BY <1>11, <2>5, <2>9, <2>10 DEF Lru!LookupHit
  <2> QED BY <1>2, <1>3, <2>4, <2>11 DEF LruInv, ListInv, Mapped, Lru!LruNext
<1> QED BY <1>12, <1>13

(* A request that goes on releases what it was given. *)
LEMMA RestoreMaps ==
  ASSUME LruInv, NEW c \in Client, NEW restored \in BOOLEAN, Restore(c, restored)
  PROVE  LruInv' /\ Mapped
<1>1. /\ UNCHANGED <<slots, bytes, tick, snaps>> /\ got' = [got EXCEPT ![c] = NoEntry]
  BY DEF Restore
<1>2. PICK bs : (\A b \in bs : b >= MinTokens) /\ due' = [due EXCEPT ![c] = bs]
  BY DEF Restore, Due
<1>3. CacheInv' BY RestoreKeeps DEF LruInv
<1>4. ListInv' /\ ByUse' = ByUse BY <1>1, ListFrame DEF LruInv
<1>5. LongEnough'
  <2>1. \A d \in Client : due'[d] = bs \/ due'[d] = due[d]
    BY <1>2 DEF LruInv, CacheInv, ClientInv, ClientTypes
  <2> QED BY <1>1, <1>2, <2>1 DEF LongEnough, LruInv
<1>6. Answered[c] # NoRequest /\ Answered' = [Answered EXCEPT ![c] = NoRequest]
  BY ReleaseMaps DEF LruInv, CacheInv
<1>7. Lru!Release(c) BY <1>1, <1>4, <1>6 DEF Lru!Release
<1> QED BY <1>3, <1>4, <1>5, <1>7 DEF LruInv, Mapped, Lru!LruNext

(* contains refreshes what it finds. *)
LEMMA CheckMaps ==
  ASSUME LruInv, NEW c \in Client, Check(c)
  PROVE  LruInv' /\ Mapped
<1> DEFINE b == Min(due[c])
           ids == Exact(req[c].model, Boundary(c, b))
<1>1. /\ due[c] # {} /\ due' = [due EXCEPT ![c] = @ \ {b}] /\ UNCHANGED <<bytes, got, pc, req>>
      /\ \/ UNCHANGED <<slots, tick>> /\ snaps' = [snaps EXCEPT ![c] = @ \cup {b}]
         \/ UNCHANGED snaps /\ \E id \in ids : Touch(id)
  BY DEF Check
<1>2. CacheInv' BY CheckKeeps DEF LruInv
<1>3. b \in due[c] BY <1>1, MinIsLeast DEF LruInv, CacheInv, ClientInv, ClientTypes
<1>4. ids \subseteq DOMAIN slots BY DEF Exact
<1> HIDE DEF b, ids
<1>5. LongEnough'
  <2>1. ASSUME NEW d \in Client
        PROVE  due'[d] \cup snaps'[d] \subseteq due[d] \cup snaps[d]
    BY <1>1, <1>3 DEF LruInv, CacheInv, ClientInv, ClientTypes
  <2> QED BY <2>1 DEF LongEnough, LruInv
<1>6. CASE UNCHANGED <<slots, tick>>
  <2>1. ListInv' /\ ByUse' = ByUse BY <1>1, <1>6, ListFrame DEF LruInv
  <2> QED BY <1>1, <1>2, <1>5, <2>1 DEF LruInv, Mapped, Lru!lruVars, Answered
<1>7. ASSUME NEW id \in ids, Touch(id) PROVE LruInv' /\ Mapped
  <2>1. /\ Priced' /\ Recent'
        /\ \E k \in 1 .. Len(ByUse) : ByUse[k] = View(slots[id]) /\ ByUse' = Lru!Refreshed(k)
    BY <1>1, <1>4, <1>7, TouchMaps DEF LruInv, ListInv, CacheInv
  <2>2. Lru!Refresh BY <1>1, <2>1 DEF Lru!Refresh, Answered
  <2> QED BY <1>2, <1>5, <2>1, <2>2 DEF LruInv, ListInv, Mapped, Lru!LruNext
<1> QED BY <1>1, <1>6, <1>7

(* A request's boundaries only become fewer. *)
LEMMA ContinueLong ==
  ASSUME LruInv, NEW c \in Client, NEW left \in SUBSET snaps[c], Continue(c, left), UNCHANGED due
  PROVE  LongEnough'
<1>1. snaps' = [snaps EXCEPT ![c] = left] BY DEF Continue
<1>2. ASSUME NEW d \in Client PROVE snaps'[d] \subseteq snaps[d]
  BY <1>1 DEF LruInv, CacheInv, ClientInv, ClientTypes
<1> QED BY <1>2 DEF LongEnough, LruInv

(* insert refuses, or is an insertion. *)
LEMMA InsertMaps ==
  ASSUME LruInv, NEW c \in Client, NEW charge \in Charge, Insert(c, charge)
  PROVE  LruInv' /\ Mapped
<1> DEFINE b == Min(snaps[c])
           t == Boundary(c, b)
           m == req[c].model
<1>1. /\ pc[c] = "fill" /\ Continue(c, snaps[c] \ {b}) /\ UNCHANGED <<got, due>>
      /\ IF Refused(m, t, charge) THEN UNCHANGED <<slots, index, short, bytes, nextId, tick>>
         ELSE Store(m, t, charge)
  BY DEF Insert
<1>2. CacheInv' BY InsertKeeps DEF LruInv
<1>3. LongEnough'
  <2> HIDE DEF b
  <2> QED BY <1>1, ContinueLong
<1>4. Answered' = Answered BY <1>1, ContinueAsks DEF LruInv, CacheInv
<1>5. /\ snaps[c] \in SUBSET Nat /\ snaps[c] # {} /\ snaps[c] \subseteq InPrompt(c)
      /\ req[c] \in Request
  BY <1>1 DEF LruInv, CacheInv, ClientInv, ClientTypes, ClientSteps
<1>6. b \in 1 .. Len(req[c].prompt) /\ b >= MinTokens
  BY <1>5, MinIsLeast DEF InPrompt, LongEnough, LruInv
<1> HIDE DEF b
<1>7. m \in Models /\ t \in Seq(Int) /\ Len(t) = b
  <2> DEFINE p == req[c].prompt
  <2>1. p \in Seq(Int) /\ b \in 1 .. Len(p) BY <1>5, <1>6, CacheAssumption
  <2> HIDE DEF p
  <2>2. Len(p) \in Nat /\ \A i \in 1 .. b : p[i] \in Int BY <2>1, LenProperties, ElementOfSeq
  <2>3. SubSeq(p, 1, b) \in Seq(Int) /\ Len(SubSeq(p, 1, b)) = (IF 1 <= b THEN b - 1 + 1 ELSE 0)
    BY <2>1, <2>2, SubSeqProperties
  <2>4. t = SubSeq(p, 1, b) BY DEF p, Boundary
  <2> HIDE DEF t
  <2>5. Len(t) = b BY <2>1, <2>2, <2>3, <2>4
  <2> QED BY <1>5, <2>3, <2>4, <2>5 DEF Models
<1> HIDE DEF t, m
<1>8. CASE Refused(m, t, charge)
  <2>1. UNCHANGED <<slots, bytes, tick>> BY <1>1, <1>8
  <2>2. ListInv' /\ ByUse' = ByUse BY <2>1, ListFrame DEF LruInv
  <2> QED BY <1>1, <1>2, <1>3, <1>4, <2>2 DEF LruInv, Mapped, Lru!lruVars
<1>9. CASE ~Refused(m, t, charge)
  <2>1. Store(m, t, charge) /\ UNCHANGED <<Answered, got>> BY <1>1, <1>9, <1>4
  <2>2. charge \in Nat /\ Budget \in Nat BY CacheAssumption
  <2>3. charge <= Budget /\ Exact(m, t) = {} BY <1>9, <2>2 DEF Refused
  <2>4. Len(t) >= MinTokens BY <1>6, <1>7
  <2>5. Priced' /\ Recent' /\ Len(ByUse') > 0 /\ Lru!Insert(Lru!Last(ByUse'))
    BY <1>7, <2>1, <2>2, <2>3, <2>4, StoreMaps DEF LruInv, ListInv, CacheInv
  <2> QED BY <1>2, <1>3, <2>5 DEF LruInv, ListInv, Mapped, Lru!LruNext
<1> QED BY <1>8, <1>9

(* The cache is the bounded map, whatever collides: a client's lookup      *)
(* returns the longest entry its request can use and makes it the latest,  *)
(* or finds none because there is none; an insertion drops the least       *)
(* recently used entries and no more of them than it must, refuses what is *)
(* stored and keeps within the budget; nothing else changes the contents.  *)
THEOREM CacheIsLru == Spec => ImplementsLru
<1>1. Init => LruInv /\ Lru!LruInit
  <2> SUFFICES ASSUME Init PROVE LruInv /\ Lru!LruInit OBVIOUS
  <2>1. slots \in [{} -> Entries] BY DEF Init
  <2>2. DOMAIN slots = {} BY <2>1
  <2>3. Ordered(slots) /\ ListOf(slots) = <<>> /\ Sum(Charges(slots), DOMAIN slots) = 0
    BY <2>1, EmptyList
  <2>4. ListInv BY <2>2, <2>3 DEF Init, ListInv, Priced, Recent
  <2>5. LongEnough BY DEF Init, LongEnough
  <2>6. CacheInv
    <3>1. DOMAIN slots = {} /\ DOMAIN index = {} /\ slots \in [{} -> Entries] BY DEF Init
    <3>2. StoreInv BY <3>1 DEF Init, StoreInv, Stored, Indexed, NoDuplicates
    <3>3. ClientInv BY DEF Init, ClientInv, ClientTypes, ClientSteps, FoundIsUsable
    <3> QED BY <3>2, <3>3 DEF CacheInv
  <2>7. Lru!LruInit BY <2>3, ListIsByUse DEF Init, Lru!LruInit, Answered
  <2> QED BY <2>4, <2>5, <2>6, <2>7 DEF LruInv
<1>2. LruInv /\ [Next]_vars => LruInv' /\ Mapped
  <2> SUFFICES ASSUME LruInv, [Next]_vars PROVE LruInv' /\ Mapped OBVIOUS
  <2>1. CASE Clear
    <3>1. Priced' /\ Recent' /\ ByUse' = <<>> BY <2>1, ClearMaps DEF LruInv, ListInv, CacheInv
    <3>2. CacheInv' BY <2>1, ClearKeeps, ClientFrame DEF Clear, CacheInv, LruInv
    <3>3. UNCHANGED <<got, due, snaps, pc, req>> BY <2>1 DEF Clear, clientVars
    <3>4. LongEnough' /\ Answered' = Answered BY <3>3 DEF LongEnough, LruInv, Answered
    <3> QED BY <3>1, <3>2, <3>3, <3>4 DEF LruInv, ListInv, Mapped, Lru!LruNext
  <2>2. ASSUME NEW c \in Client, NEW r \in Request, Lookup(c, r) PROVE LruInv' /\ Mapped
    BY <2>2, LookupMaps
  <2>3. ASSUME NEW c \in Client, NEW restored \in BOOLEAN, Restore(c, restored)
        PROVE  LruInv' /\ Mapped
    BY <2>3, RestoreMaps
  <2>4. ASSUME NEW c \in Client, Check(c) PROVE LruInv' /\ Mapped
    BY <2>4, CheckMaps
  <2>5. ASSUME NEW c \in Client, Checked(c) \/ Abandon(c) PROVE LruInv' /\ Mapped
    <3>1. /\ pc[c] \in {"check", "fill"} /\ UNCHANGED <<got, due>> /\ UNCHANGED cacheVars
          /\ \E left \in SUBSET snaps[c] : Continue(c, left)
      BY <2>5 DEF Checked, Abandon
    <3>2. StoreInv' BY <3>1, StoreFrame DEF cacheVars, CacheInv, LruInv
    <3>3. ClientInv' BY <3>1, ContinueKeeps DEF CacheInv, LruInv
    <3>4. ListInv' /\ ByUse' = ByUse BY <3>1, ListFrame DEF cacheVars, LruInv
    <3>5. LongEnough' BY <3>1, ContinueLong
    <3>6. Answered' = Answered BY <3>1, ContinueAsks DEF LruInv, CacheInv
    <3> QED BY <3>1, <3>2, <3>3, <3>4, <3>5, <3>6 DEF CacheInv, LruInv, Mapped, Lru!lruVars
  <2>6. ASSUME NEW c \in Client, NEW charge \in Charge, Insert(c, charge) PROVE LruInv' /\ Mapped
    BY <2>6, InsertMaps
  <2>7. CASE UNCHANGED vars
    <3>1. CacheInv' BY <2>7, StoreFrame, ClientFrame DEF vars, clientVars, CacheInv, LruInv
    <3>2. UNCHANGED <<slots, bytes, tick, got, due, snaps, pc, req>> BY <2>7 DEF vars
    <3>3. ListInv' /\ ByUse' = ByUse BY <3>2, ListFrame DEF LruInv
    <3>4. LongEnough' BY <3>2 DEF LongEnough, LruInv
    <3> QED BY <3>1, <3>2, <3>3, <3>4 DEF LruInv, Mapped, Lru!lruVars, Answered
  <2> QED BY <2>1, <2>2, <2>3, <2>4, <2>5, <2>6, <2>7 DEF Next, Step
<1> QED BY <1>1, <1>2, PTL DEF Spec, ImplementsLru, Lru!LruSpec, Mapped
=============================================================================
