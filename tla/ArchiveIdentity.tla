----------------------------- MODULE ArchiveIdentity -----------------------------
(***************************************************************************)
(* What ties an archive to one store: the schema version and the identity   *)
(* stamp in the family Meta (hydrozoa-store/src/meta.rs), read by the       *)
(* archiver as it starts (hydrozoa-archiver/src/main.rs), written into a    *)
(* fresh archive or checked against an old one (archive.rs), and copied     *)
(* along by every full pass.  Operators start archivers on any store and    *)
(* any archive; archivers stop anywhere.                                    *)
(***************************************************************************)
EXTENDS Families

CONSTANTS
    HeadIds,     \* heads; an identity is one peer of one head
    Stores,      \* paths of node stores
    Archives,    \* paths of archives
    Archivers,   \* archiver processes
    Supported,   \* SUPPORTED_STORE_VERSION
    MaxVersion,  \* bound: the newest schema version
    MaxFormats   \* bound: stores that are set up anew

ASSUME ArchiveIdentityAssumption ==
    /\ Supported \in Nat \ {0}
    /\ MaxVersion \in Nat /\ Supported <= MaxVersion
    /\ MaxFormats \in Nat

VARIABLES
    store,    \* store[p]: who writes the store at p, and its rows of Meta
    archive,  \* archive[a]: the rows of Meta at a, and whose entries it holds
    pc,       \* pc[k]: "off", "read" the store's Meta, "open" archive, "running"
    src, dst, \* src[k], dst[k]: the store and the archive k was started on
    formats   \* stores set up anew so far

vars == <<store, archive, pc, src, dst, formats>>

(* One head under one configuration, and one peer of it.                    *)
Identity == [head : HeadIds, peer : {p \in PeerId : Readable(p)}]

(* The rows of a stamp: none, some, or all four.                            *)
Unstamped == [stamped |-> 0]
Partial   == [stamped |-> 1]
Stamp(id) == [stamped |-> 4, head |-> id.head, own_peer_id |-> ToWireInt(id.peer)]
Stamps    == {Unstamped, Partial} \cup {Stamp(id) : id \in Identity}

(* The identity that a store's or an archive's rows are read as.            *)
IdentityOf(m) == [head |-> m.stamp.head, peer |-> FromWireInt(m.stamp.own_peer_id)]

(* Version 0 stands for a missing store_version row.                        *)
Versions == 0 .. MaxVersion

(* The node stamps a store when it sets it up, since the schema has a stamp.*)
Formatted(id, v) ==
    [owner |-> id, version |-> v,
     stamp |-> IF v >= Supported THEN Stamp(id) ELSE Unstamped]

(* Stores as an archiver may find them: not yet set up, half stamped, or    *)
(* set up by this or another version of the node.                           *)
Init ==
    /\ store \in [Stores ->
           {Formatted(id, v) : id \in Identity, v \in Versions}
             \cup [owner : Identity, version : {Supported}, stamp : {Partial}]]
    /\ archive = [a \in Archives |->
                     [version |-> 0, stamp |-> Unstamped, holds |-> {}]]
    /\ pc = [k \in Archivers |-> "off"]
    /\ src \in [Archivers -> Stores]
    /\ dst \in [Archivers -> Archives]
    /\ formats = 0

-------------------------------------------------------------------------------
(* A store is replaced by one set up anew, for this head and peer or for    *)
(* others, while no archiver has it open.                                   *)
Format(p, id, v) ==
    /\ formats < MaxFormats /\ formats' = formats + 1
    /\ \A k \in Archivers : src[k] = p => pc[k] = "off"
    /\ store' = [store EXCEPT ![p] = Formatted(id, v)]
    /\ UNCHANGED <<archive, pc, src, dst>>

(* assemble: without a version row, or with part of a stamp, a store cannot *)
(* be read.                                                                 *)
Assembles(m) == m.version # 0 /\ m.stamp # Partial

AcceptsLater(v) == v >= Supported    \* slip: as README.md:78 puts it
Accepts(v)      == v = Supported

(* An archiver starts on store p and archive a, and reads the store's Meta. *)
Start(k, p, a) ==
    /\ pc[k] = "off"
    /\ Assembles(store[p]) /\ Accepts(store[p].version)
    /\ src' = [src EXCEPT ![k] = p]
    /\ dst' = [dst EXCEPT ![k] = a]
    /\ pc' = [pc EXCEPT ![k] = "read"]
    /\ UNCHANGED <<store, archive, formats>>

(* The archive is opened, or created; RocksDB locks it.                     *)
OpenArchive(k) ==
    /\ pc[k] = "read"
    /\ \A j \in Archivers \ {k} :
          pc[j] \in {"open", "running"} => dst[j] # dst[k]
    /\ pc' = [pc EXCEPT ![k] = "open"]
    /\ UNCHANGED <<store, archive, src, dst, formats>>

SameHead(found, expected) ==    \* slip: the peer is left out
    found.head = expected.head
SameIdentity(found, expected) == found = expected

WrittenShort(id) == [Stamp(id) EXCEPT !.stamped = 3]    \* slip: a field is left out
Written(id)      == Stamp(id)

(* stamp_or_check.  A store without a stamp has no archive.  A fresh        *)
(* archive gets the store's stamp, in one committed batch; an old one must  *)
(* bear it.  The store cannot have changed since its Meta was read.         *)
StampOrCheck(k) ==
    LET m == store[src[k]]
        a == archive[dst[k]]
    IN  /\ pc[k] = "open"
        /\ m.stamp # Unstamped
        /\ \/ /\ a.version = 0 \/ a.stamp = Unstamped
              /\ archive' = [archive EXCEPT ![dst[k]] =
                                [version |-> m.version, stamp |-> Written(IdentityOf(m)),
                                 holds |-> a.holds]]
           \/ /\ a.version # 0 /\ a.stamp # Unstamped
              /\ Assembles(a)
              /\ SameIdentity(IdentityOf(a), IdentityOf(m))
              /\ UNCHANGED archive
        /\ pc' = [pc EXCEPT ![k] = "running"]
        /\ UNCHANGED <<store, src, dst, formats>>

(* A pass copies entries as they are, and a full one the rows of Meta too.  *)
CopyJournals(k) ==
    /\ pc[k] = "running"
    /\ LET m == store[src[k]]
       IN  archive' = [archive EXCEPT ![dst[k]].holds =
                          @ \cup {[owner |-> m.owner, version |-> m.version]}]
    /\ UNCHANGED <<store, pc, src, dst, formats>>

CopyMeta(k) ==
    /\ pc[k] = "running"
    /\ LET m == store[src[k]]
       IN  archive' = [archive EXCEPT ![dst[k]] =
                          [version |-> m.version, stamp |-> m.stamp, holds |-> @.holds]]
    /\ UNCHANGED <<store, pc, src, dst, formats>>

(* It crashes, is stopped, or refuses to go on.                             *)
Stop(k) ==
    /\ pc[k] # "off"
    /\ pc' = [pc EXCEPT ![k] = "off"]
    /\ UNCHANGED <<store, archive, src, dst, formats>>

Next ==
    \/ \E p \in Stores, id \in Identity, v \in Versions : Format(p, id, v)
    \/ \E k \in Archivers :
          \/ \E p \in Stores, a \in Archives : Start(k, p, a)
          \/ OpenArchive(k) \/ StampOrCheck(k)
          \/ CopyJournals(k) \/ CopyMeta(k)
          \/ Stop(k)

Spec == Init /\ [][Next]_vars

-------------------------------------------------------------------------------
(* Type invariant.                                                          *)
TypeOK ==
    /\ store \in [Stores -> [owner : Identity, version : Versions, stamp : Stamps]]
    /\ archive \in [Archives -> [version : Versions, stamp : Stamps,
                                 holds : SUBSET [owner : Identity, version : Versions]]]
    /\ pc \in [Archivers -> {"off", "read", "open", "running"}]
    /\ src \in [Archivers -> Stores] /\ dst \in [Archivers -> Archives]
    /\ formats \in 0 .. MaxFormats

(* No archive ever mixes entries of two heads, configurations or peers, and *)
(* what it holds is its stamp's, whichever archivers are pointed at it, and *)
(* stopped between opening and stamping it (archive.rs:24-28).              *)
OneOwner ==
    \A a \in Archives : \A e \in archive[a].holds :
        archive[a].stamp = Stamp(e.owner)

(* An archive once stamped keeps its stamp, also under the rows of Meta     *)
(* that full passes copy over it (archive.rs:21-22, pass.rs:74-80).         *)
StampKept ==
    [][\A a \in Archives :
           archive[a].version # 0 => archive'[a].stamp = archive[a].stamp]_vars

(* Nothing is ever archived that was written under a schema this build does *)
(* not know, and an archive that holds anything says so (main.rs:26-38).    *)
NeverMisread ==
    \A a \in Archives : \A e \in archive[a].holds :
        e.version = Supported /\ archive[a].version = Supported
==================================================================================
