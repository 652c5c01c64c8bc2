----------------------------- MODULE BuildReceipt -----------------------------
(***************************************************************************)
(* The build receipt of lyte/build_receipt.py and the operational routes   *)
(* that observe it (lyte/api/routes_health.py).  A receipt lists the       *)
(* payload files of one release with their digests; every request measures *)
(* it against the files as they are, reading the source binding, the       *)
(* receipt and then one file at a time, while a deployment may be          *)
(* replacing them under the running process.                               *)
(***************************************************************************)
EXTENDS Integers, Sequences, FiniteSets

CONSTANTS Observer,
          Path,      \* payload paths in the order they are read; the last is the marker
          Bytes,     \* Bytes[path][release]: a file may be the same in two releases
          Builds,    \* bound on deployments, which go forward
          Observations  \* bound on the requests of one client

Release == 1 .. Builds
Marker == Path[Len(Path)]   \* source_revision.txt: its bytes are the release
Paths == {Path[i] : i \in DOMAIN Path}
Gone == 0
Unset == 0
Invalid == -1

ASSUME FilesAssumption ==
  /\ Builds \in Nat \ {0}
  /\ Path \in Seq(Paths) /\ Path # <<>>
  /\ Bytes \in [Paths -> [Release -> Nat \ {Gone}]]
  /\ \A n \in Release : Bytes[Marker][n] = n

VARIABLES disk, receiptFile,
          env,         \* the revision in the environment: Unset, Invalid or a release
          required,    \* require_build_receipt, require_source_binding
          deploying,   \* the release being written, and the paths still to write
          generating,  \* the generator: the revision and the entries it has read
          progress, kind, source, found, walked, verdict, reply,
          requested,
          whole        \* the releases that were completely on disk during each request

buildVars == <<disk, receiptFile, env, required, deploying, generating, progress, kind, source, found,
          walked, verdict, reply, requested, whole>>
deployment == <<disk, env, required, deploying>>
requests == <<progress, kind, source, found, walked, verdict, reply, requested>>

-----------------------------------------------------------------------------
(* Receipts and bindings. *)

Entries(files) == [path \in {q \in Paths : files[q] # Gone} |-> files[path]]
FilesOf(n) == [path \in Paths |-> Bytes[path][n]]
\* The digest covers the revision and the entries, so it stands for them.
Document(revision, entries) ==
  [revision |-> revision, entries |-> entries, digest |-> <<revision, entries>>]
NoDocument == [revision |-> 0, entries |-> <<>>, digest |-> <<>>]
Malformed == [revision |-> -1, entries |-> <<>>, digest |-> <<>>]

\* Defect: the manifest digest is not recomputed.
Sound_Any(doc) == TRUE
Sound(doc) == doc.digest = <<doc.revision, doc.entries>>

\* source_identity: every source that names a revision names the same one.
Identity ==
  LET named == {n \in Release : env = n \/ disk[Marker] = n}
  IN  IF env = Invalid \/ Cardinality(named) > 1 THEN [state |-> "MISMATCH", revision |-> 0]
      ELSE IF named = {} THEN [state |-> "UNBOUND", revision |-> 0]
      ELSE [state |-> "OBSERVED", revision |-> CHOOSE n \in named : TRUE]
NoSource == [state |-> "UNBOUND", revision |-> 0]

WholeNow == {n \in Release : disk = FilesOf(n)}
InFlight(r) == progress[r] # "idle"

-----------------------------------------------------------------------------
(* A deployment writes the files of the next release, one at a time and in any order; a   *)
(* file may be missing for a moment.  It and the generator run one after the other.       *)

Quiet == deploying.left = {} /\ generating = NoDocument

BeginDeploy ==
  /\ Quiet
  /\ deploying.release < Builds
  /\ deploying' = [release |-> deploying.release + 1, left |-> Paths]
  /\ UNCHANGED <<disk, receiptFile, env, required, generating, whole>> /\ UNCHANGED requests

ReplaceFile ==
  /\ \E path \in deploying.left :
       IF Bytes[path][deploying.release] = disk[path] \/ disk[path] = Gone
       THEN /\ disk' = [disk EXCEPT ![path] = Bytes[path][deploying.release]]
            /\ deploying' = [deploying EXCEPT !.left = @ \ {path}]
       ELSE \/ disk' = [disk EXCEPT ![path] = Gone] /\ UNCHANGED deploying
            \/ /\ disk' = [disk EXCEPT ![path] = Bytes[path][deploying.release]]
               /\ deploying' = [deploying EXCEPT !.left = @ \ {path}]
  /\ whole' = [r \in Observer |-> IF InFlight(r) THEN whole[r] \cup WholeNow' ELSE whole[r]]
  /\ UNCHANGED <<receiptFile, env, required, generating>> /\ UNCHANGED requests

\* generate_build_receipt: the marker, the entries, a temporary file, os.replace.
Generate ==
  /\ Quiet
  /\ disk[Marker] \in Release
  /\ generating' = Document(disk[Marker], Entries(disk))
  /\ UNCHANGED <<receiptFile, whole>> /\ UNCHANGED deployment /\ UNCHANGED requests

ReplaceReceipt ==
  /\ generating # NoDocument
  /\ receiptFile' = generating
  /\ generating' = NoDocument
  /\ UNCHANGED whole /\ UNCHANGED deployment /\ UNCHANGED requests

\* It dies before the replacement: the old receipt stays.
GeneratorDies ==
  /\ generating # NoDocument
  /\ generating' = NoDocument
  /\ UNCHANGED <<receiptFile, whole>> /\ UNCHANGED deployment /\ UNCHANGED requests

-----------------------------------------------------------------------------
(* A request. *)

Advances(r, from, to) == progress[r] = from /\ progress' = [progress EXCEPT ![r] = to]
Disk == UNCHANGED <<receiptFile, generating>> /\ UNCHANGED deployment

\* readyz and live measure the schema first (SchemaReadiness), which may not be ready.
BeginObservation(r) ==
  /\ Advances(r, "idle", "source")
  /\ requested[r] < Observations
  /\ requested' = [requested EXCEPT ![r] = @ + 1]
  /\ \E k \in {"readyz", "live", "receipt"}, healthy \in BOOLEAN :
       /\ kind' = [kind EXCEPT ![r] = k]
       /\ reply' = [reply EXCEPT ![r] = [ok |-> k = "receipt" \/ healthy, identity |-> 0]]
  /\ whole' = [whole EXCEPT ![r] = WholeNow]
  /\ verdict' = [verdict EXCEPT ![r] = "none"]
  /\ UNCHANGED <<source, found, walked>> /\ Disk

ReadSource(r) ==
  /\ Advances(r, "source", "receipt")
  /\ source' = [source EXCEPT ![r] = Identity]
  /\ UNCHANGED <<kind, found, walked, verdict, reply, requested, whole>> /\ Disk

Judged(r, state) ==
  /\ verdict' = [verdict EXCEPT ![r] = state]
  /\ walked' = [walked EXCEPT ![r] = <<>>]

ReceiptRequired(r) == required.receipt \/ kind[r] \in {"live", "receipt"}

OwnSource(doc, identity) == identity.revision # 0 /\ doc.revision = identity.revision

\* observe_build_receipt, up to the payload.
ReadReceipt(r) ==
  /\ found' = [found EXCEPT ![r] = receiptFile]
  /\ LET state ==
           CASE receiptFile = NoDocument -> IF ReceiptRequired(r) THEN "MISSING" ELSE "MISSING_OPTIONAL_LOCAL"
             [] receiptFile = Malformed -> "INVALID"
             [] receiptFile \notin {NoDocument, Malformed} ->
                  IF ~OwnSource(receiptFile, source[r]) THEN "SOURCE_MISMATCH"
                  ELSE IF ~Sound(receiptFile) THEN "INVALID" ELSE "payload"
     IN  IF state = "payload"
         THEN Advances(r, "receipt", "walk") /\ UNCHANGED <<walked, verdict>>
         ELSE Advances(r, "receipt", "judged") /\ Judged(r, state)
  /\ UNCHANGED <<kind, source, reply, requested, whole>> /\ Disk

\* A missing required file, or one that vanishes before it is read, makes the receipt INVALID.
ListPayload(r) ==
  /\ IF disk[Marker] = Gone
     THEN Advances(r, "walk", "judged") /\ Judged(r, "INVALID")
     ELSE /\ Advances(r, "walk", "read")
          /\ walked' = [walked EXCEPT ![r] =
               [left |-> {i \in DOMAIN Path : disk[Path[i]] # Gone},
                entries |-> [path \in Paths |-> Gone]]]
          /\ UNCHANGED verdict
  /\ UNCHANGED <<kind, source, found, reply, requested, whole>> /\ Disk

SamePayload(entries, doc) == Entries(entries) = doc.entries

\* The files that were listed, in order.
ReadEntry(r) ==
  /\ progress[r] = "read"
  /\ \E i \in walked[r].left :
       LET path == Path[i]
           entries == [walked[r].entries EXCEPT ![path] = disk[path]]
       IN  /\ \A j \in walked[r].left : i <= j
           /\ IF disk[path] = Gone
              THEN Advances(r, "read", "judged") /\ Judged(r, "INVALID")
              ELSE IF walked[r].left # {i}
              THEN /\ walked' = [walked EXCEPT ![r] = [left |-> @.left \ {i}, entries |-> entries]]
                   /\ UNCHANGED <<progress, verdict>>
              ELSE /\ Advances(r, "read", "judged")
                   /\ Judged(r, IF SamePayload(entries, found[r]) THEN "VERIFIED" ELSE "PAYLOAD_MISMATCH")
  /\ UNCHANGED <<kind, source, found, reply, requested, whole>> /\ Disk

Ready(r) ==
  /\ reply[r].ok
  /\ kind[r] # "receipt" => source[r].state = "OBSERVED" \/ ~required.source
  /\ verdict[r] \in {"VERIFIED", "MISSING_OPTIONAL_LOCAL"}

\* live reads the source binding again for its answer; the others answer the first reading.
AnswerObserver(r) ==
  /\ Advances(r, "judged", "idle")
  /\ reply' = [reply EXCEPT ![r] =
       [ok |-> Ready(r),
        identity |-> IF kind[r] = "live" THEN Identity.revision ELSE source[r].revision]]
  /\ source' = [source EXCEPT ![r] = NoSource]
  /\ UNCHANGED <<kind, found, walked, verdict, requested, whole>> /\ Disk

-----------------------------------------------------------------------------
BuildInit ==
  /\ disk = FilesOf(1)
  /\ \* none, unreadable, the release's own, or one whose manifest was edited
     receiptFile \in {NoDocument, Malformed}
       \cup {[Document(1, FilesOf(1)) EXCEPT !.entries[path] = Bytes[path][n]] : path \in Paths, n \in Release}
  /\ env \in {Unset, Invalid} \cup Release
  /\ required \in [receipt : BOOLEAN, source : BOOLEAN]
  /\ deploying = [release |-> 1, left |-> {}]
  /\ generating = NoDocument
  /\ progress = [r \in Observer |-> "idle"]
  /\ kind = [r \in Observer |-> "readyz"]
  /\ source = [r \in Observer |-> NoSource]
  /\ found = [r \in Observer |-> NoDocument]
  /\ walked = [r \in Observer |-> <<>>]
  /\ verdict = [r \in Observer |-> "none"]
  /\ reply = [r \in Observer |-> [ok |-> FALSE, identity |-> 0]]
  /\ requested = [r \in Observer |-> 0]
  /\ whole = [r \in Observer |-> {}]

DeployStep == BeginDeploy \/ ReplaceFile \/ Generate \/ ReplaceReceipt \/ GeneratorDies
ObserverStep(r) ==
  \/ BeginObservation(r) \/ ReadSource(r) \/ ReadReceipt(r) \/ ListPayload(r) \/ ReadEntry(r) \/ AnswerObserver(r)
BuildNext == DeployStep \/ \E r \in Observer : ObserverStep(r)
BuildSpec == BuildInit /\ [][BuildNext]_buildVars

-----------------------------------------------------------------------------
(* Properties. *)

\* A receipt is VERIFIED only for the files of one release that were all on disk at one
\* instant of the request, the release the receipt and the environment name, though the
\* files are read one by one while a deployment replaces them (observe_build_receipt).
VerifiedIsARelease ==
  \A r \in Observer : progress[r] = "judged" /\ verdict[r] = "VERIFIED" =>
    /\ found[r].revision \in whole[r]
    /\ env \in {Unset, found[r].revision}
    /\ source[r].revision = found[r].revision
=============================================================================
