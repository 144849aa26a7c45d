------------------------------ MODULE Receipts ------------------------------
(***************************************************************************)
(* crustcore-receipts: the keyed chains that runs mint, each from genesis  *)
(* and all under the one key file of the state directory, their encoding,  *)
(* and what verify and verify_complete say of the receipts somebody        *)
(* presents. A hash is its preimage, and a MAC can only be made with the   *)
(* key.                                                                    *)
(***************************************************************************)
EXTENDS Integers, Sequences, SequencesExt

CONSTANTS
  Chain,         \* the ReceiptChains made under the key, one for each run
  Calls,         \* what receipts are minted for: [tool, artifacts]
  MaxArtifacts,  \* MAX_RECEIPT_ARTIFACTS
  MaxMinted      \* receipts of one chain

ASSUME ReceiptsAssumption ==
  /\ Chain # {} /\ MaxArtifacts \in Nat /\ MaxMinted \in Nat
  /\ \A c \in Calls : c = [tool |-> c.tool, artifacts |-> c.artifacts] /\ c.artifacts \in Seq(Nat)

VARIABLES
  head,       \* of each ReceiptChain
  minted,     \* every receipt it made
  presented   \* what verify is asked about

receiptVars == <<head, minted, presented>>

Genesis == <<>>
ReceiptsInit ==
  /\ head = [x \in Chain |-> Genesis] /\ minted = [x \in Chain |-> <<>>]
  /\ presented = <<>>

ReceiptBody(r) == <<r.call, r.seq, r.prev>>
Mac(key, body) == <<key, body>>

(* Bug: a long list of artifacts is kept whole, and cut only on disk. *)
BoundArtifactsNot(as) == as
BoundArtifacts(as) == SubSeq(as, 1, IF Len(as) < MaxArtifacts THEN Len(as) ELSE MaxArtifacts)

Receipt(call, seq, prev) ==
  [call |-> call, seq |-> seq, prev |-> prev, mac |-> Mac("key", <<call, seq, prev>>)]
Mint(x, c) ==
  /\ Len(minted[x]) < MaxMinted
  /\ LET r == Receipt([c EXCEPT !.artifacts = BoundArtifacts(@)], Len(minted[x]) + 1, head[x])
     IN  /\ minted' = [minted EXCEPT ![x] = Append(@, r)]
         /\ head' = [head EXCEPT ![x] = ReceiptBody(r)]
  /\ UNCHANGED presented

(* to_bytes and from_bytes: both bound the artifacts, and every other      *)
(* field has a fixed width.                                                *)
ToBytes(r) ==
  [r EXCEPT !.call.artifacts =
     SubSeq(@, 1, IF Len(@) < MaxArtifacts THEN Len(@) ELSE MaxArtifacts)]
FromBytes(b) == IF Len(b.call.artifacts) > MaxArtifacts THEN <<>> ELSE <<b>>

(* Receipts of any run, lost, repeated, reordered, put in place of each    *)
(* other, or with a field changed on the way.                              *)
Altered(r) == [r EXCEPT !.call.tool = "another"]
AllReceipts == UNION {{minted[x][i] : i \in DOMAIN minted[x]} : x \in Chain}
Present ==
  /\ presented = <<>>
  /\ presented' \in BoundedSeq(AllReceipts \cup {Altered(r) : r \in AllReceipts}, MaxMinted)
  /\ UNCHANGED <<head, minted>>

(* Bug: the link to the receipt before is not looked at. *)
BreaksAtMac(rs, i) == rs[i].mac # Mac("key", ReceiptBody(rs[i]))

(* What walk stops at: a link that does not fit, or a MAC that is not its. *)
BreaksAt(rs, i) ==
  \/ rs[i].prev # IF i = 1 THEN Genesis ELSE ReceiptBody(rs[i - 1])
  \/ rs[i].mac # Mac("key", ReceiptBody(rs[i]))

Verify(rs) ==
  LET bad == {i \in DOMAIN rs : BreaksAt(rs, i)}
  IN  IF bad = {} THEN [intact |-> TRUE, at |-> Len(rs)]
      ELSE [intact |-> FALSE, at |-> CHOOSE i \in bad : \A j \in bad : i <= j]

VerifyComplete(x, rs) ==
  LET final == IF rs = <<>> THEN Genesis ELSE ReceiptBody(rs[Len(rs)])
  IN  IF Verify(rs).intact /\ (Len(rs) # Len(minted[x]) \/ final # head[x])
      THEN [intact |-> FALSE, at |-> Len(rs)] ELSE Verify(rs)

ReceiptsNext == Present \/ \E x \in Chain, c \in Calls : Mint(x, c)

ReceiptsSpec == ReceiptsInit /\ [][ReceiptsNext]_receiptVars

(***************************************************************************)
(* What verify passes is the beginning of one run's receipts, none altered *)
(* or joined with another's; it need not be the verifying run's own: every *)
(* run has the same key, and all but the head of its chain looks the same. *)
(* verify_complete of a chain passes the whole of that chain alone. And a  *)
(* receipt written to a log frame reads back as it was minted (walk,       *)
(* verify_complete, to_bytes, from_bytes).                                 *)
(***************************************************************************)
OnlyTheChainVerifies ==
  /\ Verify(presented).intact => \E x \in Chain : IsPrefix(presented, minted[x])
  /\ \A x \in Chain :
       /\ VerifyComplete(x, presented).intact <=> presented = minted[x]
       /\ \A i \in DOMAIN minted[x] : FromBytes(ToBytes(minted[x][i])) = <<minted[x][i]>>

=============================================================================
