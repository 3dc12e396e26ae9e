----------------------------- MODULE DTLSState -----------------------------
(***************************************************************************)
(* The resumable DTLS session state of replace/dtls/state.go: serialize,  *)
(* deserialize, the gob encoding of MarshalBinary / UnmarshalBinary,      *)
(* initCipherSuite and ExportKeyingMaterial, over one client and one      *)
(* server State.                                                           *)
(*                                                                         *)
(* The handshake and record layer that fill a State (exchanging randoms,   *)
(* deriving the master secret, choosing the suite, changing epoch,         *)
(* sending records) live outside this file and are modelled from the       *)
(* spec.  The host may save a State into a resumption cache at any time    *)
(* (MarshalBinary, running beside the connection's own goroutines) and    *)
(* restart a peer from its cached record (UnmarshalBinary into a fresh     *)
(* State).  Keys and PRF outputs are uninterpreted tuples of their inputs: *)
(* two derivations agree exactly when their inputs do.                     *)
(***************************************************************************)
EXTENDS Naturals, Sequences, Functions

CONSTANTS
    ClientRandom, ServerRandom,  \* the hello randoms of the two peers
    NoRandom,                    \* an all-zero handshake.Random
    MasterSecret,                \* the negotiated master secret
    Nil,                         \* a nil byte slice
    SuiteIDs,                    \* cipher suite IDs cipherSuiteForID knows
    Suite,                       \* the suite the handshake negotiates
    Certs, Hint, SessionID,      \* the peer certificates, hint, session id
    Labels,                      \* exporter labels a host asks for
    ReservedLabels,              \* invalidKeyingLabels()
    MaxEpoch,                    \* bound on epoch changes
    MaxSeq,                      \* bound on records sent per epoch
    MaxResumes                   \* bound on peer restarts

ASSUME /\ Suite \in SuiteIDs /\ 0 \notin SuiteIDs
       /\ MaxEpoch \in Nat /\ MaxSeq \in Nat /\ MaxResumes \in Nat

Peers == {"client", "server"}
Other(p) == IF p = "client" THEN "server" ELSE "client"
OwnRandom(p) == IF p = "client" THEN ClientRandom ELSE ServerRandom

-----------------------------------------------------------------------------
(***************************************************************************)
(* State and its serialized form                                           *)
(***************************************************************************)

NoKeys == <<>>
NilSuite == [id |-> 0, keys |-> NoKeys]      \* cipherSuite == nil

\* The zero State{}: atomic epochs unset (read as 0), no sequence numbers.
FreshState ==
    [localEpoch |-> 0, remoteEpoch |-> 0, localSequenceNumber |-> <<>>,
     localRandom |-> NoRandom, remoteRandom |-> NoRandom,
     masterSecret |-> Nil, cipherSuite |-> NilSuite, srtpProtectionProfile |-> 0,
     PeerCertificates |-> Nil, IdentityHint |-> Nil, SessionID |-> Nil,
     isClient |-> FALSE]

\* serializedState with every field at its zero value.
ZeroRecord ==
    [LocalEpoch |-> 0, RemoteEpoch |-> 0, LocalRandom |-> NoRandom,
     RemoteRandom |-> NoRandom, CipherSuiteID |-> 0, MasterSecret |-> Nil,
     SequenceNumber |-> 0, SRTPProtectionProfile |-> 0, PeerCertificates |-> Nil,
     IdentityHint |-> Nil, SessionID |-> Nil, IsClient |-> FALSE]

(* serialize with the first getLocalEpoch() already read as `epoch`: the   *)
(* struct literal reads the epoch again for LocalEpoch but indexes the     *)
(* sequence numbers with `epoch`.                                         *)
serializeAt(s, epoch) ==
    [LocalEpoch |-> s.localEpoch, RemoteEpoch |-> s.remoteEpoch,
     CipherSuiteID |-> s.cipherSuite.id, MasterSecret |-> s.masterSecret,
     SequenceNumber |-> s.localSequenceNumber[epoch + 1],
     LocalRandom |-> s.localRandom, RemoteRandom |-> s.remoteRandom,
     SRTPProtectionProfile |-> s.srtpProtectionProfile,
     PeerCertificates |-> s.PeerCertificates, IdentityHint |-> s.IdentityHint,
     SessionID |-> s.SessionID, IsClient |-> s.isClient]

serialize(s) == serializeAt(s, s.localEpoch)

(* serialize panics on a nil cipherSuite (ID() on a nil interface) and on  *)
(* a sequence-number table shorter than epoch+1 (index out of range).      *)
serializePanics(s, epoch) ==
    s.cipherSuite = NilSuite \/ Len(s.localSequenceNumber) <= epoch

(* gob encodes every field but those at their zero value; the random       *)
(* arrays are always sent.  Decoding writes the fields present into the    *)
(* target and leaves the others as they were.                              *)
GobEncode(r) ==
    RestrictDomain(r, LAMBDA f : f \in {"LocalRandom", "RemoteRandom"}
                                 \/ r[f] # ZeroRecord[f])

GobDecode(into, data) ==
    [f \in DOMAIN into |-> IF f \in DOMAIN data THEN data[f] ELSE into[f]]

(* cipherSuiteForID (outside this file): a known ID gives an uninitialised *)
(* suite; an unknown one a placeholder whose Init fails at first use.      *)
cipherSuiteForID(id) == [id |-> id, keys |-> NoKeys]

\* Growth that stops one entry late, `len <= epoch+1` (a plausible slip).
growSeqPastEpoch(seq, e) ==
    IF Len(seq) <= e + 1 THEN seq \o [i \in 1..(e + 2 - Len(seq)) |-> 0] ELSE seq

\* for len(s.localSequenceNumber) <= int(epoch) { append 0 }
growSeq(seq, e) ==
    IF Len(seq) <= e THEN seq \o [i \in 1..(e + 1 - Len(seq)) |-> 0] ELSE seq

\* A deserialize that forgets s.isClient (a plausible regression).
deserializeNoRole(s, r) ==
    LET e == r.LocalEpoch
        grown == growSeq(s.localSequenceNumber, e)
    IN [s EXCEPT !.localEpoch = e, !.remoteEpoch = r.RemoteEpoch,
                 !.localSequenceNumber = [grown EXCEPT ![e + 1] = r.SequenceNumber],
                 !.localRandom = r.LocalRandom, !.remoteRandom = r.RemoteRandom,
                 !.masterSecret = r.MasterSecret,
                 !.cipherSuite = cipherSuiteForID(r.CipherSuiteID),
                 !.srtpProtectionProfile = r.SRTPProtectionProfile,
                 !.PeerCertificates = r.PeerCertificates,
                 !.IdentityHint = r.IdentityHint, !.SessionID = r.SessionID]

(* deserialize: store both epochs, grow the sequence-number table with     *)
(* zeros to cover the epoch, restore randoms, role, master secret, the     *)
(* suite by ID (uninitialised), the epoch's sequence number, the SRTP      *)
(* profile and the peer's certificate data.  Other entries of the table   *)
(* keep whatever the receiver held.                                        *)
deserialize(s, r) ==
    [deserializeNoRole(s, r) EXCEPT !.isClient = r.IsClient]

(* cipherSuite.Init(master, clientRandom, serverRandom, isClient): the key *)
(* block depends on the secret and the randoms in client/server order.     *)
Init_(master, clientRandom, serverRandom) == <<master, clientRandom, serverRandom>>

\* An initCipherSuite that passes local then remote for both roles (regression).
initCipherSuiteLocalFirst(s) ==
    IF s.cipherSuite.keys # NoKeys THEN [state |-> s, err |-> FALSE]
    ELSE IF s.cipherSuite.id \notin SuiteIDs THEN [state |-> s, err |-> TRUE]
    ELSE [state |-> [s EXCEPT !.cipherSuite.keys =
                        Init_(s.masterSecret, s.localRandom, s.remoteRandom)],
          err |-> FALSE]

(* initCipherSuite: nothing if already initialised; otherwise Init with    *)
(* local||remote as a client and remote||local as a server.               *)
initCipherSuite(s) ==
    IF s.cipherSuite.keys # NoKeys THEN [state |-> s, err |-> FALSE]
    ELSE IF s.cipherSuite.id \notin SuiteIDs THEN [state |-> s, err |-> TRUE]
    ELSE [state |-> [s EXCEPT !.cipherSuite.keys =
                        IF s.isClient
                        THEN Init_(s.masterSecret, s.localRandom, s.remoteRandom)
                        ELSE Init_(s.masterSecret, s.remoteRandom, s.localRandom)],
          err |-> FALSE]

MarshalBinary(s) == GobEncode(serialize(s))

(* UnmarshalBinary decodes into a fresh serializedState, deserializes into *)
(* the receiver and initialises the suite; an error leaves the receiver    *)
(* deserialized all the same.                                              *)
UnmarshalBinary(s, data) ==
    initCipherSuite(deserialize(s, GobDecode(ZeroRecord, data)))

\* prf.PHash(secret, seed, length, hash): uninterpreted.
PHash(secret, seed, hash) == <<"phash", secret, seed, hash>>

\* An export whose seed is local||remote for both roles (regression).
ExportKeyingMaterialLocalFirst(s, label, context) ==
    IF s.localEpoch = 0 THEN "errHandshakeInProgress"
    ELSE IF context # <<>> THEN "errContextUnsupported"
    ELSE IF label \in ReservedLabels THEN "errReservedExportKeyingMaterial"
    ELSE PHash(s.masterSecret, <<label, s.localRandom, s.remoteRandom>>,
               s.cipherSuite.id)

(* ExportKeyingMaterial (RFC 5705): refuse before the first epoch change,  *)
(* a context, a reserved label; else PHash of the master secret over       *)
(* label || client random || server random with the suite's hash.         *)
ExportKeyingMaterial(s, label, context) ==
    IF s.localEpoch = 0 THEN "errHandshakeInProgress"
    ELSE IF context # <<>> THEN "errContextUnsupported"
    ELSE IF label \in ReservedLabels THEN "errReservedExportKeyingMaterial"
    ELSE PHash(s.masterSecret,
               IF s.isClient THEN <<label, s.localRandom, s.remoteRandom>>
                             ELSE <<label, s.remoteRandom, s.localRandom>>,
               s.cipherSuite.id)

-----------------------------------------------------------------------------
(***************************************************************************)
(* Two peers, a host that saves and resumes them                           *)
(***************************************************************************)

NoRecord == [none |-> TRUE]

VARIABLES
    st,          \* st[p]: the State of peer p
    cache,       \* cache[p]: the MarshalBinary bytes the host last stored
    saving,      \* saving[p]: epoch read first by an ongoing serialize, or -1
    snapshot,    \* ghost: serialize of st[p] at the instant the save ended
    resumes,     \* restarts so far
    panicked     \* panicked[p]: peer p's process died in serialize

vars == << st, cache, saving, snapshot, resumes, panicked >>

Epochs == 0..MaxEpoch
Records == [LocalEpoch : Epochs, RemoteEpoch : Epochs,
            LocalRandom : {ClientRandom, ServerRandom, NoRandom},
            RemoteRandom : {ClientRandom, ServerRandom, NoRandom},
            CipherSuiteID : SuiteIDs \cup {0}, MasterSecret : {MasterSecret, Nil},
            SequenceNumber : 0..MaxSeq, SRTPProtectionProfile : {0},
            PeerCertificates : {Certs, Nil}, IdentityHint : {Hint, Nil},
            SessionID : {SessionID, Nil}, IsClient : BOOLEAN]

TypeOK ==
    /\ \A p \in Peers :
         /\ st[p].localEpoch \in Epochs /\ st[p].remoteEpoch \in Epochs
         /\ st[p].localSequenceNumber \in Seq(0..MaxSeq)
         /\ Len(st[p].localSequenceNumber) <= MaxEpoch + 1
         /\ st[p].isClient \in BOOLEAN
         /\ cache[p] = NoRecord \/ GobDecode(ZeroRecord, cache[p]) \in Records
         /\ saving[p] \in {-1} \cup Epochs
    /\ resumes \in 0..MaxResumes
    /\ panicked \in [Peers -> BOOLEAN]

(* A new connection: the role is fixed and the epoch-0 counter exists.     *)
Init ==
    /\ st = [p \in Peers |-> [FreshState EXCEPT !.isClient = (p = "client"),
                                                !.localSequenceNumber = <<0>>]]
    /\ cache = [p \in Peers |-> NoRecord]
    /\ saving = [p \in Peers |-> -1]
    /\ snapshot = [p \in Peers |-> NoRecord]
    /\ resumes = 0
    /\ panicked = [p \in Peers |-> FALSE]

HostVars == << cache, saving, snapshot, resumes, panicked >>

(* Handshake steps (flights outside this file): hellos exchanged, then the *)
(* key exchange fixes the master secret, suite and peer identity.          *)
SetRandoms(p) ==
    /\ st[p].localRandom = NoRandom
    /\ st' = [st EXCEPT ![p].localRandom = OwnRandom(p),
                        ![p].remoteRandom = OwnRandom(Other(p))]
    /\ UNCHANGED HostVars

SetMasterSecret(p) ==
    /\ st[p].localRandom # NoRandom /\ st[p].masterSecret = Nil
    /\ st' = [st EXCEPT ![p].masterSecret = MasterSecret,
                        ![p].cipherSuite = cipherSuiteForID(Suite),
                        ![p].PeerCertificates = Certs, ![p].IdentityHint = Hint,
                        ![p].SessionID = SessionID]
    /\ UNCHANGED HostVars

\* The handshake calls initCipherSuite once the master secret is known.
InitSuite(p) ==
    /\ st[p].masterSecret # Nil /\ st[p].cipherSuite.keys = NoKeys
    /\ st' = [st EXCEPT ![p] = initCipherSuite(st[p]).state]
    /\ UNCHANGED HostVars

(* ChangeCipherSpec: the local epoch advances and its counter starts at 0; *)
(* the peer's remote epoch follows when it receives the record.            *)
ChangeCipherSpec(p) ==
    /\ st[p].cipherSuite.keys # NoKeys /\ st[p].localEpoch < MaxEpoch
    /\ st' = [st EXCEPT ![p].localEpoch = @ + 1,
                        ![p].localSequenceNumber =
                           IF Len(@) <= st[p].localEpoch + 1 THEN Append(@, 0) ELSE @]
    /\ UNCHANGED HostVars

RecvChangeCipherSpec(p) ==
    /\ st[p].remoteEpoch < st[Other(p)].localEpoch
    /\ st' = [st EXCEPT ![p].remoteEpoch = @ + 1]
    /\ UNCHANGED HostVars

\* Sending a record takes the next sequence number of the current epoch.
Send(p) ==
    LET e == st[p].localEpoch IN
    /\ e > 0 /\ st[p].localSequenceNumber[e + 1] < MaxSeq
    /\ st' = [st EXCEPT ![p].localSequenceNumber[e + 1] = @ + 1]
    /\ UNCHANGED HostVars

(* The host saves a session with MarshalBinary, concurrently with the     *)
(* connection: serialize reads getLocalEpoch() into `epoch` first ...      *)
SaveBegin(p) ==
    /\ ~panicked[p] /\ saving[p] = -1
    /\ saving' = [saving EXCEPT ![p] = st[p].localEpoch]
    /\ UNCHANGED << st, cache, snapshot, resumes, panicked >>

(* ... then builds the record, reading the epoch again, and gob-encodes it *)
(* into the cache.  A panic in serialize ends the process.                 *)
SaveEnd(p) ==
    /\ ~panicked[p] /\ saving[p] # -1
    /\ saving' = [saving EXCEPT ![p] = -1]
    /\ \/ /\ serializePanics(st[p], saving[p])
          /\ panicked' = [panicked EXCEPT ![p] = TRUE]
          /\ UNCHANGED << cache, snapshot >>
       \/ /\ ~serializePanics(st[p], saving[p])
          /\ cache' = [cache EXCEPT ![p] = GobEncode(serializeAt(st[p], saving[p]))]
          /\ snapshot' = [snapshot EXCEPT ![p] = serialize(st[p])]
          /\ UNCHANGED panicked
    /\ UNCHANGED << st, resumes >>

(* The peer's process restarts (after a panic or not) and resumes: a      *)
(* fresh State{} is UnmarshalBinary'd from the cached bytes (decode,       *)
(* deserialize, initCipherSuite).                                          *)
Resume(p) ==
    /\ cache[p] # NoRecord /\ resumes < MaxResumes
    /\ st' = [st EXCEPT ![p] = UnmarshalBinary(FreshState, cache[p]).state]
    /\ saving' = [saving EXCEPT ![p] = -1]
    /\ resumes' = resumes + 1
    /\ panicked' = [panicked EXCEPT ![p] = FALSE]
    /\ UNCHANGED << cache, snapshot >>

PeerStep(p) ==
    \/ SetRandoms(p) \/ SetMasterSecret(p) \/ InitSuite(p)
    \/ ChangeCipherSpec(p) \/ RecvChangeCipherSpec(p) \/ Send(p)

Next ==
    \E p \in Peers : (~panicked[p] /\ PeerStep(p)) \/ SaveBegin(p) \/ SaveEnd(p)
                     \/ Resume(p)

Spec == Init /\ [][Next]_vars

-----------------------------------------------------------------------------
(***************************************************************************)
(* Properties                                                              *)
(***************************************************************************)

(* Once both peers have initialised their suite, whether by handshake or   *)
(* by UnmarshalBinary after any number of saves and restarts, they hold    *)
(* the same key block: initCipherSuite orders the randoms by role.         *)
KeysAgree ==
    (\A p \in Peers : st[p].cipherSuite.keys # NoKeys)
        => st["client"].cipherSuite.keys = st["server"].cipherSuite.keys

(* ExportKeyingMaterial gives both ends the same bytes for every label     *)
(* once both have left epoch 0, across restarts: the seed is label ||      *)
(* client random || server random whichever side computes it.              *)
ExportsAgree ==
    (\A p \in Peers : st[p].localEpoch > 0)
        => \A l \in Labels :
             ExportKeyingMaterial(st["client"], l, <<>>)
                 = ExportKeyingMaterial(st["server"], l, <<>>)

(* A resumed State serializes back to exactly the record it was restored   *)
(* from: MarshalBinary / UnmarshalBinary round-trip every persisted field. *)
ResumeRestores ==
    [][\A p \in Peers :
         Resume(p) => serialize(st'[p]) = GobDecode(ZeroRecord, cache[p])]_vars

(* Serialize is valid from any state: the host's MarshalBinary never      *)
(* panics, however early in the handshake (before a suite is chosen, or    *)
(* on a State{} without a sequence-number table) it saves.                 *)
SerializeNeverPanics ==
    \A p \in Peers : ~panicked[p]

(* A saved record is a snapshot: it equals what serialize would give for   *)
(* the State at one instant, so its SequenceNumber is the counter of its   *)
(* LocalEpoch, even when the epoch changes while MarshalBinary runs.       *)
RecordIsSnapshot ==
    \A p \in Peers :
        cache[p] # NoRecord => GobDecode(ZeroRecord, cache[p]) = snapshot[p]

=============================================================================
