--------------------------- MODULE ApiConversion ---------------------------
(***************************************************************************)
(* The conversions between the served API versions (apis/*/v1alpha1).      *)
(* v1alpha2 is the hub: what is stored, and what the controllers read.  A  *)
(* client of v1alpha1 reads through ConvertFrom and writes through         *)
(* ConvertTo.                                                              *)
(*                                                                         *)
(* v1alpha1 holds the crit configuration as one of two structures, v1alpha2*)
(* as a text, Spec.Config.  All other fields have the same type in both    *)
(* and are copied one by one.  A text is what kind of configuration it     *)
(* holds, what the configuration says, and how it is written (apiVersion,  *)
(* order, defaults, comments); a value that is no structure of its own is  *)
(* a model value.                                                          *)
(***************************************************************************)
EXTENDS Naturals, Sequences

CONSTANTS
    Value,          \* values of copied fields
    Body,           \* what a crit configuration can say
    Legacy,         \* what the v1alpha1 structures of crit can say of it
    Layout,         \* ways to write a configuration
    Canonical,      \* the one MarshalToYaml chooses
    DownBody,       \* crit: Convert_v1alpha2_..._To_v1alpha1_..., by body
    NoBody          \* a nil configuration, or the body of a text without one

\* The conversion of crit loses what v1alpha1 cannot say, and no more.
CritConverts ==
    /\ Legacy \subseteq Body /\ NoBody \notin Body /\ Canonical \in Layout
    /\ DownBody \in [Body -> Legacy] /\ \A b \in Legacy : DownBody[b] = b

-----------------------------------------------------------------------------
(* The types *)

SpecFields == {"Files", "PreCritCommands", "PostCritCommands", "Users", "NTP", "Format",
               "Verbosity"}
CCPFields == {"Replicas", "Version", "InfrastructureTemplate"}

\* Spec.Config: empty, no YAML of a known kind, or a configuration.
NoText == [kind |-> "empty", body |-> NoBody, layout |-> Canonical]
BadText == [kind : {"invalid"}, body : {NoBody}, layout : Layout]
Text == [kind : {"ControlPlaneConfiguration", "WorkerConfiguration", "other"},
         body : Body, layout : Layout]

SpecV1 == [controlPlane : Legacy \cup {NoBody}, worker : Legacy \cup {NoBody},
           copied : [SpecFields -> Value]]
SpecV2 == [config : Text \cup BadText \cup {NoText}, copied : [SpecFields -> Value]]

CCPSpecV1 == [critConfigSpec : SpecV1, copied : [CCPFields -> Value]]
CCPSpecV2 == [critConfigSpec : SpecV2, copied : [CCPFields -> Value]]

-----------------------------------------------------------------------------
(* The conversions *)

\* out.F = in.F for every field F; files, users and NTP too are the same in both.
Copy(fields, in) == [f \in fields |-> in[f]]

\* yaml.MarshalToYaml of a v1alpha1 structure, with crit's v1alpha2 as the target
MarshalToYaml(kind, body) == [kind |-> kind, body |-> body, layout |-> Canonical]

\* Convert_v1alpha1_CritConfigSpec_To_v1alpha2_CritConfigSpec: the control plane
\* configuration if there is one, else that of a worker, else none.
ToHub(in) ==
    [config |-> CASE in.controlPlane # NoBody ->
                        MarshalToYaml("ControlPlaneConfiguration", in.controlPlane)
                  [] in.controlPlane = NoBody /\ in.worker # NoBody ->
                        MarshalToYaml("WorkerConfiguration", in.worker)
                  [] OTHER -> NoText,
     copied |-> Copy(SpecFields, in.copied)]

\* yaml.UnmarshalFromYaml accepts the text; otherwise the conversion is an error.
Convertible(in) == in.config.kind # "invalid"

\* The structure of one kind: set if the text is of that kind, else nil.
Structure(text, kind) == IF text.kind = kind THEN DownBody[text.body] ELSE NoBody

\* Convert_v1alpha2_CritConfigSpec_To_v1alpha1_CritConfigSpec.  A text of another
\* kind leaves both structures nil, and is no error.
FromHub(in) ==
    [controlPlane |-> Structure(in.config, "ControlPlaneConfiguration"),
     worker |-> Structure(in.config, "WorkerConfiguration"),
     copied |-> Copy(SpecFields, in.copied)]

\* CritControlPlaneSpec: autoConvert copies the fields, and its scope converts
\* nothing; the CritConfigSpec is converted after it.
CCPToHub(in) ==
    [critConfigSpec |-> ToHub(in.critConfigSpec), copied |-> Copy(CCPFields, in.copied)]

CCPFromHub(in) ==
    [critConfigSpec |-> FromHub(in.critConfigSpec), copied |-> Copy(CCPFields, in.copied)]

\* ConvertTo and ConvertFrom of CritConfig, whose spec and status are converted
\* one after the other; metadata is copied, and so is every field of the status.
ConfigToHub(in) ==
    [meta |-> in.meta, spec |-> ToHub(in.spec), status |-> in.status]

ConfigFromHub(in) ==
    [meta |-> in.meta, spec |-> FromHub(in.spec), status |-> in.status]

\* The same of CritConfigTemplate, whose template holds a spec and no status.
TemplateToHub(in) == [meta |-> in.meta, spec |-> ToHub(in.spec)]
TemplateFromHub(in) == [meta |-> in.meta, spec |-> FromHub(in.spec)]

\* The same of CritControlPlane.
ControlPlaneToHub(in) ==
    [meta |-> in.meta, spec |-> CCPToHub(in.spec), status |-> in.status]

ControlPlaneFromHub(in) ==
    [meta |-> in.meta, spec |-> CCPFromHub(in.spec), status |-> in.status]

\* A list is converted item by item and fails with its first item that does.
ListConvertible(items) == \A i \in 1..Len(items) : Convertible(items[i].spec)
ListFromHub(items) == [i \in 1..Len(items) |-> ConfigFromHub(items[i])]
ListToHub(items) == [i \in 1..Len(items) |-> ConfigToHub(items[i])]

\* CritControlPlaneSpec.Hash: what is hashed.  Replicas are not part of it.
Hashed(spec) == <<spec.copied["Version"], spec.copied["InfrastructureTemplate"],
                  spec.critConfigSpec>>

-----------------------------------------------------------------------------
(* What the conversions do to a text: it is written anew, in the words of      *)
(* v1alpha1, and lost if it is of no kind that v1alpha1 knows.                 *)

Normal(text) ==
    IF text.kind \in {"ControlPlaneConfiguration", "WorkerConfiguration"}
    THEN MarshalToYaml(text.kind, DownBody[text.body])
    ELSE NoText

\* A client of v1alpha1 reads an object, sets a field F to v and writes it back.
Edit(spec, F, v) == CCPToHub([CCPFromHub(spec) EXCEPT !.copied[F] = v])

=============================================================================
