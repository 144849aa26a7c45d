------------------------------ MODULE Secrets ------------------------------
(***************************************************************************)
(* crustcore-secrets: the sealed vault and the keychain that fill a store, *)
(* the broker that lends a secret once, the redactor built from the store, *)
(* and the streaming redactor that shows a model's tokens to the user.     *)
(* A text is a sequence of symbols, a marker is one symbol outside them.   *)
(***************************************************************************)
EXTENDS Integers, Sequences, FiniteSets, SequencesExt

CONSTANTS
  Symbols,        \* what texts are made of
  Entries,        \* sequences of [id, label, value] to seal or to fetch
  LongLabel,      \* labels over MAX_LABEL
  Tokens,         \* texts a stream delivers at a time
  MaxBuffer,      \* max_buffer of the TokenRedactor
  MaxSaid,        \* length of a stream
  Ttl, MaxNow     \* lifetime of a view, and the clock's bound

Newline == "nl"
Marker == "[R]"

(* The marker is no part of a secret: a secret spelled by the marker's own *)
(* text would come back with every redaction. *)
ASSUME SecretsAssumption ==
  /\ MaxBuffer \in Nat \ {0} /\ MaxSaid \in Nat /\ Ttl \in Nat /\ MaxNow \in Nat
  /\ Tokens \subseteq Seq(Symbols)
  /\ Entries \subseteq Seq([id : Nat, label : STRING, value : Seq(Symbols \ {Marker})])

(***************************************************************************)
(* The redactor.                                                           *)
(***************************************************************************)
OccursAt(n, t, i) == i + Len(n) - 1 <= Len(t) /\ SubSeq(t, i, i + Len(n) - 1) = n
Occurs(n, t) == \E i \in 1..Len(t) : OccursAt(n, t, i)

(* find, from the end of the previous match *)
FreeFrom(n, t) ==
  LET free[i \in 0..Len(t)] ==
        IF i = 0 THEN 1
        ELSE LET from == free[i - 1] IN IF i >= from /\ OccursAt(n, t, i) THEN i + Len(n) ELSE from
  IN  free
Matches(n, t) ==
  LET free == FreeFrom(n, t) IN {i \in 1..Len(t) : i >= free[i - 1] /\ OccursAt(n, t, i)}

(* Bug: only the leftmost match of any secret is cut out. *)
CoveredFirst(needles, t) ==
  LET hits == UNION {{<<i, Len(n)>> : i \in Matches(n, t)} : n \in needles}
      first == {h \in hits : \A k \in hits : h[1] <= k[1]}
  IN  UNION {h[1]..(h[1] + h[2] - 1) : h \in first}

Covered(needles, t) ==
  {k \in 1..Len(t) : \E n \in needles : \E i \in Matches(n, t) : i <= k /\ k < i + Len(n)}

(* Spans that overlap or touch merge, and each leaves one marker. *)
Redacted(t, cut) ==
  LET out[i \in 0..Len(t)] ==
        IF i = 0 THEN <<>>
        ELSE IF i \notin cut THEN Append(out[i - 1], t[i])
        ELSE IF i > 1 /\ i - 1 \in cut THEN out[i - 1] ELSE Append(out[i - 1], Marker)
  IN  out
Redact(needles, t) == Redacted(t, Covered(needles, t))[Len(t)]

(* Bug: looks one symbol short. *)
LongestDanglingPrefixShort(needles, t) ==
  LET ks == {k \in 0..Len(t) : \E n \in needles :
               k < Len(n) - 1 /\ SubSeq(t, Len(t) - k + 1, Len(t)) = SubSeq(n, 1, k)}
  IN  IF ks = {} THEN 0 ELSE CHOOSE k \in ks : \A j \in ks : j <= k

LongestDanglingPrefix(needles, t) ==
  LET ks == {0} \cup {k \in 0..Len(t) : \E n \in needles :
               k < Len(n) /\ SubSeq(t, Len(t) - k + 1, Len(t)) = SubSeq(n, 1, k)}
  IN  CHOOSE k \in ks : \A j \in ks : j <= k

VARIABLES
  vault,      \* the vault file: absent, torn, or sealed with a passphrase
  store,      \* id -> [label, value]
  opened,     \* what the last open said, until the broker is built
  needles,    \* the redactor of the broker built over the store
  views,      \* the views handed out
  lent,       \* values exposed to trusted code, with the view and the time
  clock,
  buffer,     \* of the TokenRedactor
  said,       \* everything the stream delivered
  shown,      \* everything emitted
  ended,      \* the stream has been flushed
  split       \* history: a forced emit has shown a part of the buffer and kept the rest

secretVars == <<vault, store, opened, needles, views, lent, clock, buffer, said, shown, ended, split>>

NoStore == [i \in {} |-> <<>>]
SecretsInit ==
  /\ vault = [form |-> "absent"] /\ store = NoStore /\ opened = "no"
  /\ needles = {} /\ views = <<>> /\ lent = <<>> /\ clock = 0
  /\ buffer = <<>> /\ said = <<>> /\ shown = <<>> /\ ended = FALSE /\ split = FALSE

(* insert: a later entry of the same id replaces the earlier *)
Insert(es) ==
  [i \in {es[k].id : k \in DOMAIN es} |->
     LET k == CHOOSE k \in DOMAIN es :
                es[k].id = i /\ \A j \in DOMAIN es : es[j].id = i => j <= k
     IN  [label |-> es[k].label, value |-> es[k].value]]

brokerVars == <<needles, views, lent, buffer, said, shown, ended, split>>

(* fs::write truncates and then writes: a crash in between tears the file. *)
SealVault(es, pass) ==
  /\ needles = {}
  /\ \/ vault' = [form |-> "sealed", pass |-> pass, entries |-> es]
     \/ vault' = [form |-> "torn"]
  /\ UNCHANGED <<store, opened, clock, brokerVars>>

(* decode_entries refuses what seal_vault never measured. *)
BadContents(es) == \E k \in DOMAIN es : es[k].label \in LongLabel

Decrypts(pass) == vault.form = "sealed" /\ vault.pass = pass

OpenVault(pass) ==
  /\ needles = {}
  /\ LET ok == Decrypts(pass) /\ ~BadContents(vault.entries)
     IN  /\ opened' = IF ok THEN pass
                      ELSE IF vault.form = "absent" THEN "io"
                      ELSE IF Decrypts(pass) THEN "contents" ELSE "decrypt"
         /\ store' = IF ok THEN Insert(vault.entries) ELSE store
  /\ UNCHANGED <<vault, clock, brokerVars>>

(* Every entry is fetched, or none is kept; an empty answer is a failure. *)
LoadKeychain(es) ==
  /\ needles = {}
  /\ \E failed \in BOOLEAN :
       LET ok == ~failed /\ \A k \in DOMAIN es : es[k].value # <<>>
       IN  /\ opened' = IF ok THEN "keychain" ELSE "not found"
           /\ store' = IF ok THEN Insert(es) ELSE store
  /\ UNCHANGED <<vault, clock, brokerVars>>

(* Bug: an entry's place is taken by the next one's value. *)
RegisterLast(st) ==
  {st[i].value : i \in {j \in DOMAIN st : \A k \in DOMAIN st : k <= j}} \ {<<>>}

Register(st) == {st[i].value : i \in DOMAIN st} \ {<<>>}

NewBroker ==
  /\ needles = {} /\ store # NoStore
  /\ needles' = Register(store) /\ opened' = "no"
  /\ UNCHANGED <<vault, store, views, lent, clock, buffer, said, shown, ended, split>>

Serving == needles # {}

Authorize(id) ==
  /\ Serving /\ id \in DOMAIN store /\ Len(views) < 1
  /\ views' = Append(views, [id |-> id, expires |-> clock + Ttl, consumed |-> FALSE])
  /\ UNCHANGED <<vault, store, opened, needles, lent, clock, buffer, said, shown, ended, split>>

(* expose, and the bearer header built from it *)
Expose(v) ==
  /\ v \in DOMAIN views /\ ~views[v].consumed /\ clock < views[v].expires
  /\ views' = [views EXCEPT ![v].consumed = TRUE]
  /\ lent' = Append(lent, [view |-> v, value |-> store[views[v].id].value, at |-> clock])
  /\ UNCHANGED <<vault, store, opened, needles, clock, buffer, said, shown, ended, split>>

SecretTick ==
  /\ Serving /\ clock < MaxNow /\ clock' = clock + 1
  /\ UNCHANGED <<vault, store, opened, brokerVars>>

Emit(t) == shown' = shown \o Redact(needles, t)

(***************************************************************************)
(* accept_token: up to the last newline; or, once the buffer is long, up   *)
(* to the dangling prefix; or nothing yet.                                 *)
(***************************************************************************)
AcceptToken(t) ==
  /\ Serving /\ ~ended /\ Len(said) + Len(t) <= MaxSaid
  /\ said' = said \o t
  /\ LET b == buffer \o t
         newlines == {i \in DOMAIN b : b[i] = Newline}
         cut == IF newlines # {} THEN CHOOSE i \in newlines : \A j \in newlines : j <= i
                ELSE IF Len(b) >= MaxBuffer THEN Len(b) - LongestDanglingPrefix(needles, b)
                ELSE 0
     IN  /\ Emit(SubSeq(b, 1, cut))
         /\ buffer' = SubSeq(b, cut + 1, Len(b))
         /\ split' = (split \/ (newlines = {} /\ 0 < cut /\ cut < Len(b)))
  /\ UNCHANGED <<vault, store, opened, needles, views, lent, clock, ended>>

(* redact_stream flushes at the end of the stream, and only there. *)
Flush ==
  /\ Serving /\ ~ended /\ ended' = TRUE
  /\ Emit(buffer) /\ buffer' = <<>>
  /\ UNCHANGED <<vault, store, opened, needles, views, lent, clock, said, split>>

SecretsNext ==
  \/ \E es \in Entries :
       SealVault(es, "pw") \/ (vault.form = "absent" /\ LoadKeychain(es))
  \/ \E pass \in {"pw", "other"} : OpenVault(pass)
  \/ NewBroker \/ Flush
  \/ said = <<>> /\ (\/ SecretTick
                    \/ \E id \in DOMAIN store : Authorize(id)
                    \/ \E v \in DOMAIN views : Expose(v))
  \/ \E t \in Tokens : AcceptToken(t)

SecretsSpec == SecretsInit /\ [][SecretsNext]_secretVars

(* No secret spans lines; and none begins as itself or another ends. *)
OneLine == \A n \in needles : Newline \notin {n[i] : i \in DOMAIN n}
Unbordered ==
  \A m, n \in needles : \A k \in 1..(Len(m) - 1) : ~IsPrefix(SubSeq(m, k + 1, Len(m)), n)

(***************************************************************************)
(* A text that went through the redactor in one piece holds no registered  *)
(* secret, however the secrets overlap in it, and is the same text where   *)
(* none was (Redactor::redact, would_leak).                                *)
(***************************************************************************)
RedactedTextIsClean ==
  /\ \A n \in needles : ~Occurs(n, Redact(needles, said))
  /\ (\A n \in needles : ~Occurs(n, said)) => Redact(needles, said) = said

(***************************************************************************)
(* A secret of one line in the store, lent or not, never shows in the      *)
(* stream, whatever tokens it is split over, as long as either no secret   *)
(* begins as itself or another ends, or no forced emit had to keep a part  *)
(* of its buffer back. Where both fail a secret may be shown: of aba, the  *)
(* first two symbols are emitted and the last kept, as the beginning of    *)
(* another aba (SecretBroker::new, accept_token, longest_dangling_prefix). *)
(***************************************************************************)
StreamShowsNoSecret ==
  /\ (Serving /\ OneLine /\ (Unbordered \/ ~split)) =>
       \A i \in DOMAIN store :
         store[i].value # <<>> => ~Occurs(store[i].value, shown)
  /\ \A k \in DOMAIN lent : lent[k].value # <<>> => lent[k].value \in needles

\* No registered secret is shown in a text redacted as a whole; and in a stream
\* of tokens no secret of one line is, unless secrets overlap and a forced emit
\* cut its buffer in two (Redactor::redact, accept_token, flush).
NoSecretIsShown == RedactedTextIsClean /\ StreamShowsNoSecret

=============================================================================
