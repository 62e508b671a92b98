------------------------ MODULE ApiConversion_proofs ------------------------
(***************************************************************************)
(* What a client of v1alpha1 can rely on, for all specs and whatever crit  *)
(* can say in its two versions (CritConverts).                             *)
(***************************************************************************)
EXTENDS ApiConversion, TLAPS

\* Copying all fields of a function is the identity.
LEMMA CopyAll ==
    ASSUME NEW F, NEW V, NEW in \in [F -> V]
    PROVE  Copy(F, in) = in
BY DEF Copy

\* Writing a text in the words of v1alpha1 once is enough.
LEMMA NormalSettles ==
    ASSUME CritConverts, NEW t \in Text \cup BadText \cup {NoText}
    PROVE  Normal(Normal(t)) = Normal(t)
<1>1. CASE t.kind \in {"ControlPlaneConfiguration", "WorkerConfiguration"}
  <2>1. t \in Text
    BY <1>1 DEF BadText, NoText
  <2>2. DownBody[t.body] \in Legacy /\ DownBody[DownBody[t.body]] = DownBody[t.body]
    BY <2>1 DEF Text, CritConverts
  <2> QED BY <1>1, <2>2 DEF Normal, MarshalToYaml
<1>2. CASE t.kind \notin {"ControlPlaneConfiguration", "WorkerConfiguration"}
  BY <1>2 DEF Normal, NoText
<1> QED BY <1>1, <1>2

\* ToHub after FromHub writes the text anew and keeps everything else.
LEMMA Rewrites ==
    ASSUME CritConverts, NEW s \in SpecV2, Convertible(s)
    PROVE  ToHub(FromHub(s)) = [s EXCEPT !.config = Normal(@)]
<1> DEFINE text == s.config
<1>1. s = [config |-> text, copied |-> s.copied] /\ s.copied \in [SpecFields -> Value]
  BY DEF SpecV2
<1>2. Copy(SpecFields, Copy(SpecFields, s.copied)) = s.copied
  BY <1>1, CopyAll
<1>3. ToHub(FromHub(s)).config = Normal(text)
  <2>1. CASE text.kind = "ControlPlaneConfiguration"
    <3>1. text \in Text
      BY <2>1 DEF SpecV2, BadText, NoText
    <3>2. DownBody[text.body] \in Legacy /\ DownBody[text.body] # NoBody
      BY <3>1 DEF Text, CritConverts
    <3> QED BY <2>1, <3>2 DEF ToHub, FromHub, Structure, Normal
  <2>2. CASE text.kind = "WorkerConfiguration"
    <3>1. text \in Text
      BY <2>2 DEF SpecV2, BadText, NoText
    <3>2. DownBody[text.body] \in Legacy /\ DownBody[text.body] # NoBody
      BY <3>1 DEF Text, CritConverts
    <3> QED BY <2>2, <3>2 DEF ToHub, FromHub, Structure, Normal
  <2>3. CASE text.kind \notin {"ControlPlaneConfiguration", "WorkerConfiguration"}
    BY <2>3 DEF ToHub, FromHub, Structure, Normal
  <2> QED BY <2>1, <2>2, <2>3
<1>4. ToHub(FromHub(s)).copied = s.copied
  BY <1>2 DEF ToHub, FromHub
<1>5. ToHub(FromHub(s)) = [config |-> Normal(text), copied |-> s.copied]
  BY <1>3, <1>4 DEF ToHub
<1> QED BY <1>1, <1>5

\* ConvertTo, then ConvertFrom: a client of v1alpha1 reads back what it wrote,
\* except that a worker configuration beside a control plane configuration is
\* dropped by the switch of conversion.go.
THEOREM ReadBack ==
    ASSUME CritConverts, NEW s \in SpecV1
    PROVE  FromHub(ToHub(s)) =
              [s EXCEPT !.worker = IF s.controlPlane # NoBody THEN NoBody ELSE @]
<1> DEFINE r == FromHub(ToHub(s))
<1>1. s = [controlPlane |-> s.controlPlane, worker |-> s.worker, copied |-> s.copied]
      /\ s.copied \in [SpecFields -> Value]
      /\ s.controlPlane \in Legacy \cup {NoBody} /\ s.worker \in Legacy \cup {NoBody}
  BY DEF SpecV1
<1>2. r.copied = s.copied
  <2>1. Copy(SpecFields, Copy(SpecFields, s.copied)) = s.copied
    BY <1>1, CopyAll
  <2> QED BY <2>1 DEF ToHub, FromHub
<1>3. r.controlPlane = s.controlPlane
  BY <1>1 DEF ToHub, FromHub, Structure, MarshalToYaml, NoText, CritConverts
<1>4. r.worker = IF s.controlPlane # NoBody THEN NoBody ELSE s.worker
  BY <1>1 DEF ToHub, FromHub, Structure, MarshalToYaml, NoText, CritConverts
<1>5. r = [controlPlane |-> r.controlPlane, worker |-> r.worker, copied |-> r.copied]
  BY DEF FromHub
<1> QED BY <1>1, <1>2, <1>3, <1>4, <1>5

\* A client of v1alpha1 that changes one field of a CritControlPlane has the rest
\* of the stored spec unchanged, but for the text of the configuration, which
\* ConvertFrom and ConvertTo write anew.
THEOREM EditKeepsRest ==
    ASSUME CritConverts, NEW s \in CCPSpecV2, Convertible(s.critConfigSpec),
           NEW F \in CCPFields, NEW v \in Value
    PROVE  Edit(s, F, v) =
              [critConfigSpec |-> [s.critConfigSpec EXCEPT !.config = Normal(@)],
               copied |-> [s.copied EXCEPT ![F] = v]]
<1>1. s = [critConfigSpec |-> s.critConfigSpec, copied |-> s.copied]
      /\ s.critConfigSpec \in SpecV2 /\ s.copied \in [CCPFields -> Value]
  BY DEF CCPSpecV2
<1>2. Copy(CCPFields, s.copied) = s.copied
  BY <1>1, CopyAll
<1>3. Copy(CCPFields, [s.copied EXCEPT ![F] = v]) = [s.copied EXCEPT ![F] = v]
  <2>1. [s.copied EXCEPT ![F] = v] \in [CCPFields -> Value]
    BY <1>1
  <2> QED BY <2>1, CopyAll
<1>4. CCPFromHub(s) = [critConfigSpec |-> FromHub(s.critConfigSpec), copied |-> s.copied]
  BY <1>2 DEF CCPFromHub
<1>5. Edit(s, F, v) = [critConfigSpec |-> ToHub(FromHub(s.critConfigSpec)),
                       copied |-> [s.copied EXCEPT ![F] = v]]
  BY <1>3, <1>4 DEF Edit, CCPToHub
<1>6. ToHub(FromHub(s.critConfigSpec)) = [s.critConfigSpec EXCEPT !.config = Normal(@)]
  BY <1>1, Rewrites
<1> QED BY <1>5, <1>6

\* Scaling through v1alpha1 leaves the hash alone, and so the machines, exactly if
\* the text is in normal form already; otherwise every machine becomes outdated
\* (CritControlPlaneSpec.Hash covers Spec.Config, MachinesNeedingUpgrade compares).
THEOREM ScalingKeepsHash ==
    ASSUME CritConverts, NEW s \in CCPSpecV2, Convertible(s.critConfigSpec), NEW n \in Value
    PROVE  Hashed(Edit(s, "Replicas", n)) = Hashed(s)
              <=> Normal(s.critConfigSpec.config) = s.critConfigSpec.config
<1> DEFINE c == s.critConfigSpec  t == Edit(s, "Replicas", n)
<1>1. c \in SpecV2 /\ s.copied \in [CCPFields -> Value]
      /\ s = [critConfigSpec |-> c, copied |-> s.copied]
  BY DEF CCPSpecV2
<1>2. t = [critConfigSpec |-> [c EXCEPT !.config = Normal(@)],
           copied |-> [s.copied EXCEPT !["Replicas"] = n]]
  BY EditKeepsRest DEF CCPFields
<1>3. t.copied["Version"] = s.copied["Version"]
      /\ t.copied["InfrastructureTemplate"] = s.copied["InfrastructureTemplate"]
  BY <1>1, <1>2 DEF CCPFields
<1>4. t.critConfigSpec = [c EXCEPT !.config = Normal(@)]
  BY <1>1, <1>2
<1>5. c = [config |-> c.config, copied |-> c.copied]
  BY <1>1 DEF SpecV2
<1>6. t.critConfigSpec = c <=> Normal(c.config) = c.config
  BY <1>4, <1>5
<1> QED BY <1>3, <1>6 DEF Hashed

\* However often a client of v1alpha1 scales, the machines are replaced on that
\* account at most once: after the first write the text is in normal form.
THEOREM SecondEditKeepsHash ==
    ASSUME CritConverts, NEW s \in CCPSpecV2, Convertible(s.critConfigSpec),
           NEW F \in CCPFields, NEW v \in Value, NEW n \in Value
    PROVE  LET t == Edit(s, F, v) IN
              /\ t \in CCPSpecV2 /\ Convertible(t.critConfigSpec)
              /\ Hashed(Edit(t, "Replicas", n)) = Hashed(t)
<1> DEFINE c == s.critConfigSpec  t == Edit(s, F, v)
<1>1. c \in SpecV2 /\ s.copied \in [CCPFields -> Value]
      /\ s = [critConfigSpec |-> c, copied |-> s.copied]
  BY DEF CCPSpecV2
<1>2. c.config \in Text \cup BadText \cup {NoText}
      /\ c = [config |-> c.config, copied |-> c.copied] /\ c.copied \in [SpecFields -> Value]
  BY <1>1 DEF SpecV2
<1>3. t.critConfigSpec = [config |-> Normal(c.config), copied |-> c.copied]
      /\ t = [critConfigSpec |-> t.critConfigSpec, copied |-> [s.copied EXCEPT ![F] = v]]
  <2>1. t = [critConfigSpec |-> [c EXCEPT !.config = Normal(@)],
             copied |-> [s.copied EXCEPT ![F] = v]]
    BY EditKeepsRest
  <2>2. [c EXCEPT !.config = Normal(@)] = [config |-> Normal(c.config), copied |-> c.copied]
    BY <1>2
  <2> QED BY <2>1, <2>2
<1>4. Normal(c.config) \in Text \cup {NoText} /\ Normal(c.config).kind # "invalid"
  <2>1. CASE c.config.kind \in {"ControlPlaneConfiguration", "WorkerConfiguration"}
    <3>1. c.config \in Text
      BY <1>2, <2>1 DEF BadText, NoText
    <3>2. DownBody[c.config.body] \in Body /\ Canonical \in Layout
      BY <3>1 DEF Text, CritConverts
    <3> QED BY <2>1, <3>2 DEF Normal, MarshalToYaml, Text
  <2>2. CASE c.config.kind \notin {"ControlPlaneConfiguration", "WorkerConfiguration"}
    BY <2>2 DEF Normal, NoText
  <2> QED BY <2>1, <2>2
<1>5. t.critConfigSpec \in SpecV2 /\ Convertible(t.critConfigSpec)
  BY <1>2, <1>3, <1>4 DEF SpecV2, Convertible
<1>6. t \in CCPSpecV2
  BY <1>1, <1>3, <1>5 DEF CCPSpecV2
<1>7. Normal(t.critConfigSpec.config) = t.critConfigSpec.config
  BY <1>2, <1>3, NormalSettles
<1> QED BY <1>5, <1>6, <1>7, ScalingKeepsHash

\* A CritControlPlane that was created through v1alpha1 keeps its machines when it is
\* scaled through v1alpha1: what ConvertTo writes is in normal form.
THEOREM CreatedKeepsHash ==
    ASSUME CritConverts, NEW s \in CCPSpecV1, NEW n \in Value
    PROVE  LET t == CCPToHub(s) IN Hashed(Edit(t, "Replicas", n)) = Hashed(t)
<1> DEFINE c == s.critConfigSpec  t == CCPToHub(s)  text == ToHub(c).config
<1>1. /\ c.controlPlane \in Legacy \cup {NoBody} /\ c.worker \in Legacy \cup {NoBody}
      /\ c.copied \in [SpecFields -> Value] /\ s.copied \in [CCPFields -> Value]
  BY DEF CCPSpecV1, SpecV1
<1>2. \/ \E kind \in {"ControlPlaneConfiguration", "WorkerConfiguration"}, b \in Legacy :
            text = [kind |-> kind, body |-> b, layout |-> Canonical]
      \/ text = NoText
  BY <1>1 DEF ToHub, MarshalToYaml
<1>3. /\ text \in Text \cup BadText \cup {NoText} /\ text.kind # "invalid"
      /\ Normal(text) = text
  <2>1. ASSUME NEW kind \in {"ControlPlaneConfiguration", "WorkerConfiguration"}, NEW b \in Legacy,
               text = [kind |-> kind, body |-> b, layout |-> Canonical]
        PROVE  text \in Text /\ text.kind # "invalid" /\ Normal(text) = text
    <3>1. b \in Body /\ Canonical \in Layout /\ DownBody[b] = b
      BY DEF CritConverts
    <3> QED BY <2>1, <3>1 DEF Text, Normal, MarshalToYaml
  <2>2. CASE text = NoText
    BY <2>2 DEF Normal, NoText
  <2> QED BY <1>2, <2>1, <2>2
<1>4. ToHub(c) = [config |-> text, copied |-> c.copied]
  <2>1. Copy(SpecFields, c.copied) = c.copied
    BY <1>1, CopyAll
  <2> QED BY <2>1 DEF ToHub
<1>5. t = [critConfigSpec |-> ToHub(c), copied |-> s.copied]
  <2>1. Copy(CCPFields, s.copied) = s.copied
    BY <1>1, CopyAll
  <2> QED BY <2>1 DEF CCPToHub
<1> HIDE DEF text
<1>6. t.critConfigSpec = [config |-> text, copied |-> c.copied] /\ t.copied = s.copied
  BY <1>4, <1>5
<1>7. t \in CCPSpecV2 /\ Convertible(t.critConfigSpec)
  BY <1>1, <1>3, <1>4, <1>5 DEF CCPSpecV2, SpecV2, Convertible
<1>8. Normal(t.critConfigSpec.config) = t.critConfigSpec.config
  BY <1>3, <1>6
<1> QED BY <1>7, <1>8, ScalingKeepsHash

=============================================================================
