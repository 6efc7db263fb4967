-------------------------- MODULE ThresholdShares --------------------------
(***************************************************************************)
(* The threshold wrapper (wrapper/threshold.rs) and the way a container is *)
(* opened with it (try_unwrap_fmk, ops/decrypt.rs): a secret is split and  *)
(* each share sealed as a stanza; later some stanzas -- any of them, in    *)
(* any order, repeated, damaged or relabelled -- lie in a container and    *)
(* are opened together under that container's associated data.             *)
(***************************************************************************)
EXTENDS Shamir

CONSTANTS
  Schemes,      \* the <<t, n>> callers ask for
  Secrets,      \* the bytes they split
  Randoms,      \* the random coefficients drawn
  Contexts,     \* associated data: the container a split is made for
  Harms,        \* what may have happened to a stanza on the way
  MaxSplits,    \* bound: splits made
  MaxHarmed,    \* bound: stanzas something happened to
  MaxPresented  \* bound: stanzas in the container that is opened

ASSUME DataAssumption ==
  /\ Schemes \subseteq (0 .. 255) \X (0 .. 255)
  /\ Secrets \subseteq Byte
  /\ Randoms \subseteq Byte
  /\ Harms \subseteq {"none", "ciphertext", "version", "threshold", "id"}
  /\ MaxSplits \in Nat /\ MaxHarmed \in Nat /\ MaxPresented \in Nat

VARIABLES
  splits,     \* the splits made: [t, n, context, coeffs, stanzas]
  presented,  \* the stanzas in the container: [split, place, harm]
  result      \* what opening it gave, or Unopened

vars == <<splits, presented, result>>

Unopened == [context |-> {}, status |-> "unopened", value |-> Zero]

-----------------------------------------------------------------------------
(* The associated data of one share: the container's, its id and scheme.   *)
(* (The variant leaves the scheme out.)                                    *)
IdAad(context, id, t, n)    == <<context, id>>
ShareAad(context, id, t, n) == <<context, id, t, n>>

(* seal: one stanza for each share, ids 1 .. n.                            *)
Stanzas(coeffs, n, context) ==
  LET t == Len(coeffs)
      shares == Split(coeffs, n)
  IN  [i \in 1 .. n |->
         [id      |-> shares[i].id,
          t       |-> t,
          n       |-> n,
          kek     |-> shares[i].id,
          aad     |-> ShareAad(context, shares[i].id, t, n),
          value   |-> shares[i].value,
          version |-> 1,
          intact  |-> TRUE]]

(* A stanza as it lies in the container.                                   *)
Harmed(s, harm) ==
  [s EXCEPT !.intact  = harm # "ciphertext",
            !.version = IF harm = "version" THEN 2 ELSE @,
            !.t       = IF harm = "threshold" THEN @ - 1 ELSE @,
            !.id      = IF harm = "id" THEN (@ + 1) % 256 ELSE @]

Stanza(p) == Harmed(splits[p.split].stanzas[p.place], p.harm)

(* ShareStanza::parse; stanzas that do not parse are passed over.          *)
StanzaParses(s) == s.version = 1

Whole(i) == presented[i].harm = "none"

Collected ==
  LET taken[i \in 0 .. Len(presented)] ==
        IF i = 0 THEN <<>>
        ELSE IF StanzaParses(Stanza(presented[i]))
        THEN Append(taken[i - 1], Stanza(presented[i]))
        ELSE taken[i - 1]
  IN  taken[Len(presented)]

(* unwrap_key under the key of the stanza's id and its associated data.    *)
Unwraps(s, context, t, n) ==
  s.intact /\ s.kek = s.id /\ s.aad = ShareAad(context, s.id, t, n)

(* open.                                                                   *)
Open(stanzas, context) ==
  IF stanzas = <<>> THEN Error("NotEnoughShares")
  ELSE LET t == stanzas[1].t
           n == stanzas[1].n
       IN  IF \E i \in DOMAIN stanzas : stanzas[i].t # t \/ stanzas[i].n # n
           THEN Error("InconsistentParameters")
           ELSE IF Len(stanzas) < t THEN Error("NotEnoughShares")
           ELSE IF \E i \in DOMAIN stanzas : ~Unwraps(stanzas[i], context, t, n)
           THEN Error("UnwrapFailed")
           ELSE Combine([i \in DOMAIN stanzas |->
                           [id |-> stanzas[i].id, value |-> stanzas[i].value]], t)

-----------------------------------------------------------------------------
Init ==
  /\ splits = <<>>
  /\ presented = <<>>
  /\ result = Unopened

(* seal, with the coefficients the RNG drew.                               *)
Seal(scheme, coeffs, context) ==
  /\ Len(splits) < MaxSplits
  /\ SplitAccepts(scheme[1], scheme[2])
  /\ splits' = Append(splits, [t |-> scheme[1], n |-> scheme[2], context |-> context,
                               coeffs |-> coeffs,
                               stanzas |-> Stanzas(coeffs, scheme[2], context)])
  /\ UNCHANGED <<presented, result>>

(* A stanza is put into the container (after all splits were made).        *)
Present(split, place, harm) ==
  /\ result = Unopened
  /\ Len(splits) = MaxSplits
  /\ Len(presented) < MaxPresented
  /\ harm = "none" \/ Cardinality({i \in DOMAIN presented : ~Whole(i)}) < MaxHarmed
  /\ presented' = Append(presented, [split |-> split, place |-> place, harm |-> harm])
  /\ UNCHANGED <<splits, result>>

OpenContainer(context) ==
  /\ result = Unopened
  /\ presented # <<>>
  /\ LET r == Open(Collected, context)
     IN  result' = [context |-> {context}, status |-> r.status, value |-> r.value]
  /\ UNCHANGED <<splits, presented>>

(* The secret, then what the RNG drew.                                     *)
CoefficientLists(t) ==
  {c \in [1 .. t -> Secrets \cup Randoms] :
     \A j \in 1 .. t : c[j] \in IF j = 1 THEN Secrets ELSE Randoms}

Next ==
  \/ \E scheme \in Schemes, context \in Contexts :
       \E coeffs \in CoefficientLists(scheme[1]) : Seal(scheme, coeffs, context)
  \/ \E i \in DOMAIN splits, harm \in Harms :
       \E place \in DOMAIN splits[i].stanzas : Present(i, place, harm)
  \/ \E context \in Contexts : OpenContainer(context)

Spec == Init /\ [][Next]_vars

-----------------------------------------------------------------------------
(* The stanzas that take part in opening, and the split each comes from.   *)
Taken    == {i \in DOMAIN presented : presented[i].harm # "version"}
From(i)  == splits[presented[i].split]
Distinct(S) == \A i, j \in S : presented[i].place = presented[j].place => i = j

(* Any t or more different whole shares of one split, in any order, give   *)
(* the secret back (threshold.rs:4).                                       *)
QuorumOpens ==
  \A k \in DOMAIN splits :
    /\ result # Unopened
    /\ result.context = {splits[k].context}
    /\ Cardinality(Taken) >= splits[k].t
    /\ Distinct(Taken)
    /\ \A i \in Taken : Whole(i) /\ presented[i].split = k
    => result.status = "ok" /\ result.value = splits[k].coeffs[1]

(* What opens is what was sealed: every stanza taken was whole and made    *)
(* for this container, at least t of them, and unless they come from two   *)
(* splits made for it, the value is the secret.  No relabelled, downgraded *)
(* or foreign stanza takes part (threshold.rs:9-13).                       *)
OpenedIsSealed ==
  result.status = "ok" =>
    /\ \A i \in Taken : Whole(i) /\ {From(i).context} = result.context
    /\ \A i \in Taken : Cardinality(Taken) >= From(i).t
    /\ \A i \in Taken :
         (\A j \in Taken : presented[j].split = presented[i].split)
           => result.value = From(i).coeffs[1]

(* Coefficients with another secret that give the same shares at points   *)
(* xs: what is added is the difference of the secrets times                *)
(* (1 + x / xs[1]) (1 + x / xs[2]) ....                                    *)
Alibi(coeffs, xs, secret) ==
  LET mask[k \in 0 .. Len(xs)] ==
        [j \in DOMAIN coeffs |->
           IF k = 0 THEN IF j = 1 THEN gf_add(secret, coeffs[1]) ELSE Zero
           ELSE IF j = 1 THEN mask[k - 1][1]
           ELSE gf_add(mask[k - 1][j], gf_mul(mask[k - 1][j - 1], gf_inv(xs[k])))]
  IN  [j \in DOMAIN coeffs |-> gf_add(coeffs[j], mask[Len(xs)][j])]

(* Fewer than t shares tell nothing: whichever t - 1 shares are known, for *)
(* every secret a caller may split there are coefficients that give these  *)
(* very shares, and each secret as many, as the exchange of the secrets is *)
(* one to one (shamir.rs:11).                                              *)
FewerSharesHide ==
  presented = <<>> =>
    \A k \in DOMAIN splits :
      \A known \in [1 .. splits[k].t - 1 -> Range(splits[k].stanzas)], secret \in Secrets :
        LET xs    == [i \in DOMAIN known |-> U8(known[i].id)]
            other == Alibi(splits[k].coeffs, xs, secret)
        IN  /\ other[1] = secret
            /\ \A i \in DOMAIN known : Evaluate(other, xs[i]) = known[i].value
            /\ Alibi(other, xs, splits[k].coeffs[1]) = splits[k].coeffs

=============================================================================
