----------------------------- MODULE CertCache -----------------------------
(***************************************************************************)
(* The gQUIC compressed-certificate cache of                               *)
(* src/vaipn/common/quic/gquic-go/internal/crypto/cert_cache.go.           *)
(*                                                                         *)
(* getCompressedCert hashes its three inputs, looks the hash up in a       *)
(* process-wide groupcache LRU under compressedCertsCacheMutex, and on a   *)
(* miss releases the mutex, compresses the chain and takes the mutex again *)
(* to add the result.  Each critical section is one action; compressChain  *)
(* runs between them, so goroutines interleave there.                      *)
(*                                                                         *)
(* Bytes are tokens.  A certificate is a sequence of tokens and a hash     *)
(* list (pCommonSetHashes, pCachedHashes) is a sequence of one token per   *)
(* 64-bit hash.  fnv-64a is taken to be collision-free, so the hash of the *)
(* written bytes is the byte string itself: what the key tells apart is    *)
(* exactly what the concatenation tells apart.                             *)
(***************************************************************************)
EXTENDS Naturals, Sequences, SequencesExt

CONSTANTS
    Goroutines,            \* callers of getCompressedCert (connection handshakes)
    Inputs,                \* set of [chain, common, cached] a caller may pass
    NumCachedCertificates, \* protocol.NumCachedCertificates, the LRU capacity
    MaxCalls               \* bound on the number of calls in a behaviour

VARIABLES
    lru,      \* the cache: sequence of [key, value], most recently used first
    pc,       \* where each goroutine is: "idle", "compress" or "add"
    arg,      \* the input of each goroutine's current call
    result,   \* the compressed chain held between compressChain and Add
    returned, \* what each goroutine's last call returned
    calls

vars == <<lru, pc, arg, result, returned, calls>>

NoInput == [chain |-> <<>>, common |-> <<>>, cached |-> <<>>]
NoReturn == [ok |-> FALSE, in |-> NoInput, out |-> <<>>]

(* compressChain is outside this repository: an injective function of its  *)
(* three arguments, which may fail.                                        *)
compressChain(i) == <<"compressed", i.chain, i.common, i.cached>>

(* The bytes written into the hasher when the hash list pCachedHashes is   *)
(* forgotten: the plausible bug the key must not have.                     *)
HashNoCached(i) == FlattenSeq(i.chain) \o i.common

(* Lines 21-27: every certificate, then the common-set hashes, then the    *)
(* cached hashes, written one after the other with no separator.           *)
Hash(i) == FlattenSeq(i.chain) \o i.common \o i.cached

(***************************************************************************)
(* groupcache lru.Cache, outside this repository.  Get moves a hit to the  *)
(* front.  Add replaces and moves an existing key to the front, or pushes  *)
(* a new one and removes the oldest entry when over capacity.              *)
(***************************************************************************)
IndexOf(s, k) == SelectInSeq(s, LAMBDA e : e.key = k)

MoveToFront(s, i) == <<s[i]>> \o RemoveAt(s, i)

(* Add that never removes the oldest entry.                               *)
LruAddNoEvict(s, k, v) ==
    LET i == IndexOf(s, k)
        e == [key |-> k, value |-> v]
    IN  IF i # 0 THEN <<e>> \o RemoveAt(s, i) ELSE <<e>> \o s

LruAdd(s, k, v) ==
    LET i == IndexOf(s, k)
        e == [key |-> k, value |-> v]
    IN  IF i # 0 THEN <<e>> \o RemoveAt(s, i)
        ELSE IF Len(s) + 1 > NumCachedCertificates THEN Front(<<e>> \o s)
        ELSE <<e>> \o s

TypeOK ==
    /\ lru \in Seq([key : {Hash(i) : i \in Inputs}, value : {compressChain(i) : i \in Inputs}])
    /\ Len(lru) <= NumCachedCertificates
    /\ pc \in [Goroutines -> {"idle", "compress", "add"}]
    /\ arg \in [Goroutines -> Inputs \cup {NoInput}]
    /\ calls \in 0..MaxCalls

Init ==
    /\ lru = <<>>
    /\ pc = [g \in Goroutines |-> "idle"]
    /\ arg = [g \in Goroutines |-> NoInput]
    /\ result = [g \in Goroutines |-> <<>>]
    /\ returned = [g \in Goroutines |-> NoReturn]
    /\ calls = 0

Return(g, in, ok, out) ==
    /\ pc' = [pc EXCEPT ![g] = "idle"]
    /\ returned' = [returned EXCEPT ![g] = [ok |-> ok, in |-> in, out |-> out]]

(* Lines 19-35: hash the inputs, then Lock, Get, Unlock.  A hit moves the  *)
(* entry to the front and returns its value.                               *)
GetCached(g) ==
    /\ pc[g] = "idle"
    /\ calls < MaxCalls
    /\ \E i \in Inputs :
        LET k == Hash(i)
            n == IndexOf(lru, k)
        IN  /\ arg' = [arg EXCEPT ![g] = i]
            /\ calls' = calls + 1
            /\ IF n # 0
                 THEN /\ lru' = MoveToFront(lru, n)
                      /\ Return(g, i, TRUE, lru[n].value)
                 ELSE /\ pc' = [pc EXCEPT ![g] = "compress"]
                      /\ UNCHANGED <<lru, returned>>
    /\ UNCHANGED result

(* Lines 37-41: compressChain outside the lock; an error is returned.      *)
CompressChain(g) ==
    /\ pc[g] = "compress"
    /\ \/ /\ result' = [result EXCEPT ![g] = compressChain(arg[g])]
          /\ pc' = [pc EXCEPT ![g] = "add"]
          /\ UNCHANGED returned
       \/ /\ Return(g, arg[g], FALSE, <<>>)
          /\ UNCHANGED result
    /\ UNCHANGED <<lru, arg, calls>>

(* Lines 42-47: Lock, Add under the hash computed at line 27, Unlock,      *)
(* return the result.  Another goroutine may have added the key meanwhile. *)
AddCompressed(g) ==
    /\ pc[g] = "add"
    /\ lru' = LruAdd(lru, Hash(arg[g]), result[g])
    /\ Return(g, arg[g], TRUE, result[g])
    /\ UNCHANGED <<arg, result, calls>>

Next == \E g \in Goroutines : GetCached(g) \/ CompressChain(g) \/ AddCompressed(g)

Spec == Init /\ [][Next]_vars

(***************************************************************************)
(* Every certificate chain getCompressedCert returns, from the cache or    *)
(* freshly compressed, is the compression of the caller's own chain and    *)
(* hash lists: the cache key, the hash of the concatenated inputs, never   *)
(* serves one caller the entry another caller's different inputs stored.   *)
(***************************************************************************)
ResultMatchesInput ==
    \A g \in Goroutines :
        returned[g].ok => returned[g].out = compressChain(returned[g].in)

=============================================================================
