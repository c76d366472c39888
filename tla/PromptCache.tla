------------------------------ MODULE PromptCache ------------------------------
(***************************************************************************)
(* The cross-request prompt cache (prompt_cache.rs) and the requests that  *)
(* share it.  Every method takes the mutex once and is one action; between *)
(* its lookup, the checks of its boundaries and its insertions a request   *)
(* (DecodeSession::start, handle_pause, Generator::run) holds no lock.     *)
(*                                                                         *)
(* Hashes are arbitrary (Seed, Chain), so collisions are in the model.     *)
(* Lists of entry ids are sets: two candidates of equal length would be    *)
(* the same entry.  A snapshot is the number of bytes it is charged.       *)
(***************************************************************************)
EXTENDS Integers, Sequences, FiniteSets, SequencesExt, FiniteSetsExt

CONSTANTS
  Client,      \* requests' threads
  Request,     \* a set of [model, prompt] records, the prompts not empty
  Block,       \* BLOCK, tokens per hashed block
  MinTokens,   \* min_tokens, at least 1
  Budget,      \* budget_bytes
  Charge,      \* bytes an entry may be charged
  Seed(_),     \* seed
  Chain(_, _), \* chain
  MaxTick,     \* bound: uses of entries
  MaxLookups,  \* bound: requests
  MaxDue,      \* bound: boundaries of a request
  NoEntry, NoId, NoRequest

ASSUME CacheAssumption ==
  /\ Block \in Nat \ {0}
  /\ MinTokens \in Nat \ {0}
  /\ Budget \in Nat
  /\ Charge \subseteq Nat \ {0}
  /\ \A r \in Request : r.prompt \in Seq(Int) /\ r.prompt # <<>>
  /\ NoId \notin Nat /\ NoRequest \notin Request

VARIABLES
  slots,     \* id -> entry, its tick of last use, its index keys
  index,     \* key -> ids of the entries listed under it
  short,     \* ids of the entries shorter than a block
  bytes, nextId, tick,
  lookups, hits,   \* two of the counters
  pc,        \* client: "idle", "found", "check", "fill"
  req,       \* the client's request
  got,       \* [model, tokens] of the entry its lookup returned, or NoEntry
  due,       \* boundaries it has still to check
  snaps      \* boundaries it will insert

cacheVars == <<slots, index, short, bytes, nextId, tick, lookups, hits>>
clientVars == <<pc, req, got, due, snaps>>
vars == <<slots, index, short, bytes, nextId, tick, lookups, hits, pc, req, got, due, snaps>>

Init ==
  /\ slots = <<>> /\ index = <<>> /\ short = {}
  /\ bytes = 0 /\ nextId = 0 /\ tick = 0
  /\ lookups = 0 /\ hits = 0
  /\ pc = [c \in Client |-> "idle"]
  /\ req = [c \in Client |-> NoRequest]
  /\ got = [c \in Client |-> NoEntry]
  /\ due = [c \in Client |-> {}]
  /\ snaps = [c \in Client |-> {}]

-----------------------------------------------------------------------------
(* Chained hashes of every complete block. *)
BlockKeys(model, tokens) ==
  LET hash[d \in 0 .. Len(tokens) \div Block] ==
        IF d = 0 THEN Seed(model)
        ELSE Chain(hash[d - 1], SubSeq(tokens, (d - 1) * Block + 1, d * Block))
  IN  [d \in 1 .. Len(tokens) \div Block |-> hash[d]]

Keys(id) == {slots[id].keys[d] : d \in DOMAIN slots[id].keys}
Without(f, S) == [x \in DOMAIN f \ S |-> f[x]]

(* The depths to which the walk over the prompt's keys gets. *)
Depths(keys) == {d \in DOMAIN keys : \A e \in 1 .. d : keys[e] \in DOMAIN index}

(* pick: the longest of ids that the request can use. *)
UsableM(ids, r, maxLen) ==
  {id \in ids \cap DOMAIN slots :
     Len(slots[id].tokens) <= maxLen /\ IsPrefix(slots[id].tokens, r.prompt)}
Usable(ids, r, maxLen) ==
  {id \in ids \cap DOMAIN slots :
     /\ slots[id].model = r.model
     /\ Len(slots[id].tokens) <= maxLen
     /\ IsPrefix(slots[id].tokens, r.prompt)}
Longest(ids) ==
  CHOOSE id \in ids : \A j \in ids : Len(slots[j].tokens) <= Len(slots[id].tokens)

(* The deepest key with a usable entry decides, then the short entries. *)
CandidatesM(r, maxLen) ==
  LET keys == BlockKeys(r.model, SubSeq(r.prompt, 1, maxLen))
      good == Depths(keys)
  IN  IF good # {} THEN Usable(index[keys[Max(good)]], r, maxLen)
      ELSE Usable(short, r, maxLen)
Candidates(r, maxLen) ==
  LET keys == BlockKeys(r.model, SubSeq(r.prompt, 1, maxLen))
      good == {d \in Depths(keys) : Usable(index[keys[d]], r, maxLen) # {}}
  IN  IF good # {} THEN Usable(index[keys[Max(good)]], r, maxLen)
      ELSE Usable(short, r, maxLen)

Find(r, maxLen) ==
  LET ids == Candidates(r, maxLen) IN IF ids = {} THEN NoId ELSE Longest(ids)

Now == tick + 1

(* lookup and contains refresh what they find. *)
Touch(id) ==
  /\ tick < MaxTick
  /\ tick' = Now
  /\ slots' = [slots EXCEPT ![id].used = Now]

Found(id) == [model |-> slots[id].model, tokens |-> slots[id].tokens]

Lookup(c, r) ==
  LET maxLen == Len(r.prompt) - 1
      id == IF maxLen < MinTokens THEN NoId ELSE Find(r, maxLen)
  IN
  /\ pc[c] = "idle" /\ lookups < MaxLookups
  /\ pc' = [pc EXCEPT ![c] = "found"]
  /\ req' = [req EXCEPT ![c] = r]
  /\ lookups' = IF maxLen < MinTokens THEN lookups ELSE lookups + 1
  /\ IF id = NoId
     THEN UNCHANGED <<got, slots, tick>>
     ELSE Touch(id) /\ got' = [got EXCEPT ![c] = Found(id)]
  /\ UNCHANGED <<index, short, bytes, nextId, hits, due, snaps>>

(* The entry is restored (record_hit) unless the request's own state holds *)
(* as much or cannot take it.  The boundaries from the kept prefix on will *)
(* be cached if they are long enough (wants).                              *)
Due(c, start) == {b \in start .. Len(req[c].prompt) : b >= MinTokens}

Restore(c, restored) ==
  /\ pc[c] = "found"
  /\ pc' = [pc EXCEPT ![c] = "check"]
  /\ restored => got[c] # NoEntry
  /\ hits' = IF restored THEN hits + 1 ELSE hits
  /\ \E start \in IF restored THEN {Len(got[c].tokens)} ELSE 0 .. Len(req[c].prompt) - 1 :
       \E bs \in SUBSET Due(c, start) :
         Cardinality(bs) <= MaxDue /\ due' = [due EXCEPT ![c] = bs]
  /\ got' = [got EXCEPT ![c] = NoEntry]
  /\ UNCHANGED <<slots, index, short, bytes, nextId, tick, lookups, req, snaps>>

(* find_exact looks under the deepest key only. *)
Exact(model, tokens) ==
  LET keys == BlockKeys(model, tokens)
      ids == IF keys = <<>> THEN short
             ELSE IF Last(keys) \in DOMAIN index THEN index[Last(keys)] ELSE {}
  IN  {id \in ids \cap DOMAIN slots :
         slots[id].model = model /\ slots[id].tokens = tokens}

Boundary(c, b) == SubSeq(req[c].prompt, 1, b)

(* contains, boundary by boundary: those cached already are not due. *)
Check(c) ==
  LET b == Min(due[c])
      ids == Exact(req[c].model, Boundary(c, b))
  IN
  /\ pc[c] = "check" /\ due[c] # {}
  /\ due' = [due EXCEPT ![c] = @ \ {b}]
  /\ \/ /\ ids = {}
        /\ snaps' = [snaps EXCEPT ![c] = @ \cup {b}]
        /\ UNCHANGED <<slots, tick>>
     \/ \E id \in ids : Touch(id) /\ UNCHANGED snaps
  /\ UNCHANGED <<index, short, bytes, nextId, lookups, hits, pc, req, got>>

(* The request goes on to fill the cache, or is over. *)
Continue(c, left) ==
  /\ snaps' = [snaps EXCEPT ![c] = left]
  /\ pc' = [pc EXCEPT ![c] = IF left = {} THEN "idle" ELSE "fill"]
  /\ req' = [req EXCEPT ![c] = IF left = {} THEN NoRequest ELSE @]

Checked(c) ==
  /\ pc[c] = "check" /\ due[c] = {}
  /\ Continue(c, snaps[c])
  /\ UNCHANGED <<cacheVars, got, due>>

-----------------------------------------------------------------------------
(* insert *)

SumBytes(ids) == MapThenSumSet(LAMBDA id : slots[id].bytes, ids)
OlderThan(id) == {j \in DOMAIN slots : slots[j].used < slots[id].used}

(* Evicting the least recently used entry while the new one does not fit   *)
(* ends up evicting these.                                                 *)
VictimsM(charge) ==
  {id \in DOMAIN slots : bytes - SumBytes(OlderThan(id)) + charge >= Budget}
Victims(charge) ==
  {id \in DOMAIN slots : bytes - SumBytes(OlderThan(id)) + charge > Budget}

(* remove, of each victim: keys left without an entry leave the index. *)
UnlistedM(ids) == index
Unlisted(ids) ==
  LET left == [k \in DOMAIN index |-> index[k] \ ids]
  IN  Without(left, {k \in DOMAIN index : left[k] = {}})

Listed(ix, id, keys) ==
  LET new == {keys[d] : d \in DOMAIN keys} IN
  [k \in DOMAIN ix \cup new |->
     (IF k \in DOMAIN ix THEN ix[k] ELSE {}) \cup (IF k \in new THEN {id} ELSE {})]

Freed(ids) == SumBytes(ids)

Store(model, tokens, charge) ==
  LET out == Victims(charge)
      keys == BlockKeys(model, tokens)
      kept == Without(slots, out)
      entry == [model |-> model, tokens |-> tokens, bytes |-> charge,
                used |-> Now, keys |-> keys]
  IN
  /\ tick < MaxTick
  /\ tick' = Now
  /\ nextId' = nextId + 1
  /\ slots' = [id \in DOMAIN kept \cup {nextId} |-> IF id = nextId THEN entry ELSE kept[id]]
  /\ index' = Listed(Unlisted(out), nextId, keys)
  /\ short' = (short \ out) \cup (IF keys = <<>> THEN {nextId} ELSE {})
  /\ bytes' = bytes - Freed(out) + charge

(* A snapshot is inserted when the prompt has been processed that far; an  *)
(* entry over the budget or cached meanwhile is refused.                   *)
Refused(model, tokens, charge) == charge > Budget \/ Exact(model, tokens) # {}

Insert(c, charge) ==
  LET b == Min(snaps[c])
      tokens == Boundary(c, b)
  IN
  /\ pc[c] = "fill"
  /\ Continue(c, snaps[c] \ {b})
  /\ IF Refused(req[c].model, tokens, charge)
     THEN UNCHANGED <<slots, index, short, bytes, nextId, tick>>
     ELSE Store(req[c].model, tokens, charge)
  /\ UNCHANGED <<lookups, hits, got, due>>

(* A failed or cancelled request inserts no more. *)
Abandon(c) ==
  /\ pc[c] = "fill"
  /\ Continue(c, {})
  /\ UNCHANGED <<cacheVars, got, due>>

(* clear removes every entry and keeps the counters. *)
Clear ==
  /\ slots # <<>>
  /\ slots' = Without(slots, DOMAIN slots)
  /\ index' = Unlisted(DOMAIN slots)
  /\ short' = short \ DOMAIN slots
  /\ bytes' = bytes - Freed(DOMAIN slots)
  /\ UNCHANGED <<nextId, tick, lookups, hits, clientVars>>

Step(c) ==
  \/ \E r \in Request : Lookup(c, r)
  \/ \E restored \in BOOLEAN : Restore(c, restored)
  \/ Check(c) \/ Checked(c)
  \/ \E charge \in Charge : Insert(c, charge)
  \/ Abandon(c)
Next == Clear \/ \E c \in Client : Step(c)

Spec == Init /\ [][Next]_vars

-----------------------------------------------------------------------------
(* The index lists every entry under each of its keys and nothing else, an *)
(* entry without a complete block among the short ones: an entry that is   *)
(* stored can be found, an evicted one leaves no trace.                    *)
Indexed ==
  /\ DOMAIN index = UNION {Keys(id) : id \in DOMAIN slots}
  /\ \A k \in DOMAIN index : index[k] = {id \in DOMAIN slots : k \in Keys(id)}
  /\ short = {id \in DOMAIN slots : slots[id].keys = <<>>}
  /\ \A id \in DOMAIN slots : slots[id].keys = BlockKeys(slots[id].model, slots[id].tokens)

(* No prefix is stored twice, although a request checks its boundary long  *)
(* before it inserts and others insert meanwhile.                          *)
NoDuplicates ==
  \A i, j \in DOMAIN slots :
    slots[i].model = slots[j].model /\ slots[i].tokens = slots[j].tokens => i = j

(* What a lookup returned is a proper prefix of the prompt and an entry of *)
(* the same model, although the blocks of another model or prompt may have *)
(* the same hashes.                                                        *)
FoundIsUsable ==
  \A c \in Client : pc[c] = "found" /\ got[c] # NoEntry =>
    /\ got[c].model = req[c].model
    /\ Len(got[c].tokens) < Len(req[c].prompt)
    /\ IsPrefix(got[c].tokens, req[c].prompt)

(* The ids of the entries, least recently used first, and the entries. *)
Order ==
  CHOOSE f \in [1 .. Cardinality(DOMAIN slots) -> DOMAIN slots] :
    \A i, j \in DOMAIN f : i < j => slots[f[i]].used < slots[f[j]].used
ByUse ==
  [i \in DOMAIN Order |->
     [model |-> slots[Order[i]].model, tokens |-> slots[Order[i]].tokens,
      bytes |-> slots[Order[i]].bytes]]

(* The requests whose lookup has been answered and not yet acted upon. *)
Answered == [c \in Client |-> IF pc[c] = "found" THEN req[c] ELSE NoRequest]

Lru == INSTANCE PromptLru WITH lru <- ByUse, asked <- Answered

(* Whatever collides, the cache is the bounded map: a client's lookup      *)
(* finds the longest entry its own request can use and makes it the        *)
(* latest, or nothing only if no entry can be used; insertions evict the   *)
(* least recently used entries and no more than needed.                    *)
ImplementsLru == Lru!LruSpec
=============================================================================
