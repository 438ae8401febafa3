----------------------------- MODULE EvidenceLog -----------------------------
(***************************************************************************)
(* The evidence of a mission (runtime/missions/evidence.js): an artifact   *)
(* file and a row in a hash chain per record.  record() runs in three      *)
(* parts a crash or another process can separate: the file is written, the *)
(* row is looked up, and one store transaction appends the row.            *)
(*                                                                         *)
(* A job's record has an id derived from the job's id, an upload a fresh   *)
(* one, so a record is named by the job or the upload it is for.           *)
(*                                                                         *)
(* Hashes are modelled by what they hash: chain_hash is                    *)
(* sha256(previous_chain_hash : record_sha256), here the sequence of the   *)
(* hashed records, with GENESIS the empty one.  Equal hashes therefore     *)
(* mean equal histories, as they do for a collision-free hash.             *)
(***************************************************************************)
EXTENDS MissionIds, Naturals, Sequences, FiniteSetsExt

CONSTANT Uploads  \* evidence uploaded over HTTP (POST .../evidence)

ASSUME UploadAssumption == Uploads \cap Jobs = {}

Records == Jobs \cup Uploads

VARIABLES artifacts,  \* records whose artifact file exists
          evidence    \* the evidence table: a function of the ids it has

evidenceVars == <<artifacts, evidence>>

GENESIS == <<>>

EvidenceInit ==
  /\ artifacts = {}
  /\ evidence  = [e \in {} |-> {}]

Recorded == DOMAIN evidence

RowsOf(m) == {e \in Recorded : evidence[e].mission = m}

Hashes == Seq(Records \X Nat)

EvidenceTypeOK ==
  /\ artifacts \subseteq Records
  /\ Recorded \subseteq Records
  /\ \A e \in Recorded :
       evidence[e] \in [ mission : Missions, sequence : Nat \ {0},
                        previous_chain_hash : Hashes, chain_hash : Hashes ]

-----------------------------------------------------------------------------
LastSequence(m) == Max({evidence[e].sequence : e \in RowsOf(m)} \cup {0})

(* The chain hash of the mission's last row.                               *)
LastHash(m) ==
  IF RowsOf(m) = {} THEN GENESIS
  ELSE LET last == CHOOSE e \in RowsOf(m) :
                     evidence[e].sequence = LastSequence(m)
       IN evidence[last].chain_hash

(* atomicWrite, unless the file is there with the same content.            *)
WriteArtifact(e) == artifacts' = artifacts \cup {e}

Upsert(e, row) ==
  evidence' = [x \in Recorded \cup {e} |-> IF x = e THEN row ELSE evidence[x]]

(* A mutant: the new row does not link to the row before it.               *)
AppendRow_Unlinked(e, m) ==
  LET n == LastSequence(m) + 1
  IN Upsert(e, [ mission             |-> m,
                 sequence            |-> n,
                 previous_chain_hash |-> GENESIS,
                 chain_hash          |-> Append(LastHash(m), <<e, n>>) ])

(* The append transaction: it does not look the record up again, and the   *)
(* store's upsert on the id overwrites a row that is there already.        *)
AppendRow(e, m) ==
  LET n == LastSequence(m) + 1
  IN Upsert(e, [ mission             |-> m,
                 sequence            |-> n,
                 previous_chain_hash |-> LastHash(m),
                 chain_hash          |-> Append(LastHash(m), <<e, n>>) ])

(* verify(): walks the rows in order of their sequence and compares each   *)
(* with the number and the hash it expects; no rows at all is an error.    *)
RowAt(m, n)   == CHOOSE e \in RowsOf(m) : evidence[e].sequence = n
HashAt(m, n)  == IF n = 0 THEN GENESIS ELSE evidence[RowAt(m, n)].chain_hash

WalkIsValid(m) ==
  /\ {evidence[e].sequence : e \in RowsOf(m)} = 1 .. Cardinality(RowsOf(m))
  /\ \A e \in RowsOf(m) :
       LET row == evidence[e]
           n   == row.sequence
       IN /\ row.previous_chain_hash = HashAt(m, n - 1)
          /\ row.chain_hash = Append(HashAt(m, n - 1), <<e, n>>)
          /\ e \in artifacts

ChainVerifies(m) == RowsOf(m) # {} /\ WalkIsValid(m)

-----------------------------------------------------------------------------
(* GET .../verify finds the chain of every mission with evidence valid.    *)
EvidenceChainVerifies ==
  \A m \in Missions : RowsOf(m) # {} => ChainVerifies(m)

(* The README's "append-only ... evidence": a row, once written, is never  *)
(* changed.                                                                *)
EvidenceAppendOnly ==
  [][ \A e \in Recorded :
        e \in Recorded' /\ evidence'[e] = evidence[e] ]_evidenceVars

=============================================================================
