------------------------------- MODULE PromptLru -------------------------------
(***************************************************************************)
(* What the prompt cache promises its clients: a bounded map from token    *)
(* prefixes to snapshots, whose lookups return the longest usable prefix   *)
(* and which forgets least recently used entries first, and only as many   *)
(* as it must.                                                             *)
(***************************************************************************)
EXTENDS Integers, Sequences, SequencesExt, FiniteSetsExt

CONSTANTS Client, Request, MinTokens, Budget, NoEntry, NoRequest

VARIABLES
  lru,     \* the entries, least recently used first
  asked,   \* the request each client has looked up, or NoRequest
  got      \* model and tokens of the entry it was given, or NoEntry
lruVars == <<lru, asked, got>>

LruInit ==
  /\ lru = <<>>
  /\ asked = [c \in Client |-> NoRequest] /\ got = [c \in Client |-> NoEntry]

Refreshed(i) == Append(RemoveAt(lru, i), lru[i])

(* An entry a request can start from: it leaves a token to prefill. *)
UsableBy(e, r) ==
  /\ e.model = r.model
  /\ Len(e.tokens) < Len(r.prompt) /\ IsPrefix(e.tokens, r.prompt)

IsLongest(i, r) ==
  /\ UsableBy(lru[i], r)
  /\ \A j \in 1 .. Len(lru) : UsableBy(lru[j], r) => Len(lru[j].tokens) <= Len(lru[i].tokens)

(* A client's lookup is answered at once; a miss means that there is       *)
(* nothing the request could start from.                                   *)
Asks(c, r) == asked[c] = NoRequest /\ asked' = [asked EXCEPT ![c] = r]

LookupMiss(c, r) ==
  /\ Asks(c, r)
  /\ \A i \in 1 .. Len(lru) : ~UsableBy(lru[i], r)
  /\ got' = [got EXCEPT ![c] = NoEntry]
  /\ UNCHANGED lru

LookupHit(c, r) ==
  /\ Asks(c, r)
  /\ \E i \in 1 .. Len(lru) :
       /\ IsLongest(i, r)
       /\ got' = [got EXCEPT ![c] = [model |-> lru[i].model, tokens |-> lru[i].tokens]]
       /\ lru' = Refreshed(i)

(* The client goes on. *)
Release(c) ==
  /\ asked[c] # NoRequest
  /\ asked' = [asked EXCEPT ![c] = NoRequest]
  /\ got' = [got EXCEPT ![c] = NoEntry]
  /\ UNCHANGED lru

Refresh == \E i \in 1 .. Len(lru) : lru' = Refreshed(i) /\ UNCHANGED <<asked, got>>

(* The entries from position k on. *)
From(k) == SubSeq(lru, k, Len(lru))
BytesFrom(k) == MapThenSumSet(LAMBDA i : lru[i].bytes, k .. Len(lru))

Insert(e) ==
  /\ e.bytes <= Budget /\ Len(e.tokens) >= MinTokens
  /\ \A i \in 1 .. Len(lru) : <<lru[i].model, lru[i].tokens>> # <<e.model, e.tokens>>
  /\ \E k \in 1 .. Len(lru) + 1 :
       /\ BytesFrom(k) + e.bytes <= Budget
       /\ k > 1 => BytesFrom(k - 1) + e.bytes > Budget
       /\ lru' = Append(From(k), e)
  /\ UNCHANGED <<asked, got>>

LruNext ==
  \/ \E c \in Client, r \in Request : LookupMiss(c, r) \/ LookupHit(c, r)
  \/ \E c \in Client : Release(c)
  \/ Refresh
  \/ lru' = <<>> /\ UNCHANGED <<asked, got>>      \* everything is dropped
  \/ Len(lru') > 0 /\ Insert(Last(lru'))

LruSpec == LruInit /\ [][LruNext]_lruVars
=============================================================================
