----------------------------- MODULE Overrides ------------------------------
(***************************************************************************)
(* The override form of one request: an approver opens a modal filled with *)
(* the parameters of that moment, edits it at leisure and submits it to a  *)
(* record that others may have changed since.  A submission is compared    *)
(* with the record field by field, limited, validated against the schema   *)
(* of the action, merged into the parameters and only then put to          *)
(* applyApproval.                                                          *)
(***************************************************************************)
EXTENDS Integers, FiniteSets, FiniteSetsExt

CONSTANTS
  Users, Allowed,     \* who opens forms; who is in allowed_approver_ids
  Params,             \* the parameters of the request
  OverrideKeys,       \* override_keys of the record
  Texts,              \* what a field may hold, the empty field apart
  Canonical,          \* numerals -> how String() writes the number they denote
  NumberOf,           \* numerals -> that number
  Size,               \* texts -> length
  InitialParams,
  SchemaFiles,        \* contents the schema file of the action may have
  MinApprovals,
  MaxKeys, MaxChars   \* OVERRIDE_MAX_KEYS, OVERRIDE_MAX_CHARS

\* A value is known by its type and by what String(value) gives.  An absent
\* parameter is shown as an empty field, and an empty field is sent as null.
Blank == ""
Missing == [type |-> "undefined", text |-> Blank]
Numerals == DOMAIN Canonical
Value == [type: {"string", "boolean"}, text: Texts] \cup [type: {"number"}, text: Numerals] \cup {Missing}

\* What the schema of a property lets through; an absent constraint lets
\* everything through (the enum that holds every value), and so does a schema
\* without the property.  An empty enum lets nothing through.
PropertySchema == [type: {"any", "string", "number", "boolean"}, enum: SUBSET Value,
                   pattern: SUBSET Texts, lengths: SUBSET Nat, range: SUBSET Int]

ASSUME OverridesAssumption ==
  /\ Allowed \subseteq Users
  /\ OverrideKeys \subseteq Params
  /\ OverrideKeys # {}
  /\ Canonical \in [Numerals -> Numerals]
  /\ Numerals \subseteq Texts
  /\ InitialParams \in [Params -> Value]
  /\ {MinApprovals, MaxKeys, MaxChars} \subseteq Nat

VARIABLES
  status,
  redacted_params,
  approvers,          \* who approved
  open,               \* users with a form on the screen
  filled,             \* what its fields hold
  opened,             \* history: the parameters when it opened
  schemaFile,         \* the schema file on disk
  cached              \* {} until the schema is first read, then what was read

forms == <<open, filled, opened>>
schema == <<schemaFile, cached>>
overrideVars == <<status, redacted_params, approvers, forms, schema>>

Empty == [k \in OverrideKeys |-> Blank]

OverridesInit ==
  /\ status \in {"awaiting_personas", "ready_for_approval"}
  /\ redacted_params = InitialParams
  /\ approvers = {}
  /\ open = {}
  /\ filled = [u \in Users |-> Empty]
  /\ opened = [u \in Users |-> InitialParams]
  /\ schemaFile \in SchemaFiles
  /\ cached = {}

-----------------------------------------------------------------------------
(* The form.                                                               *)
Shown(v) == v.text

\* Anyone may open it, at any time, and opening it again starts it afresh.
OpenForm(u) ==
  /\ open' = open \cup {u}
  /\ filled' = [filled EXCEPT ![u] = [k \in OverrideKeys |-> Shown(redacted_params[k])]]
  /\ opened' = [opened EXCEPT ![u] = redacted_params]
  /\ UNCHANGED <<status, redacted_params, approvers, schema>>

EditField(u, k, t) ==
  /\ u \in open
  /\ filled[u][k] # t
  /\ filled' = [filled EXCEPT ![u][k] = t]
  /\ UNCHANGED <<status, redacted_params, approvers, open, opened, schema>>

-----------------------------------------------------------------------------
(* The submission.                                                         *)
Coerce(t) == IF t \in Numerals THEN [type |-> "number", text |-> Canonical[t]]
             ELSE [type |-> "string", text |-> t]

\* A bug this code could have had: the coerced value is compared with the
\* stored one.
DiffersCoerced(k, t) == t # Blank /\ Coerce(t) # redacted_params[k]

Differs(k, t) == t # Blank /\ t # Shown(redacted_params[k])
\* Another: what counts as changed is what differs from the form as it opened.
ChangedSinceOpened(u) ==
  {k \in OverrideKeys : filled[u][k] \notin {Blank, Shown(opened[u][k])}}

Changed(u) == {k \in OverrideKeys : Differs(k, filled[u][k])}

totalOverrideCharSize(u) ==
  MapThenSumSet(LAMBDA k : Size[Coerce(filled[u][k]).text], Changed(u))

WithinLimits(u) ==
  /\ Cardinality(Changed(u)) <= MaxKeys
  /\ totalOverrideCharSize(u) <= MaxChars

\* The file is read once in the life of the process.
LoadActionSchema == IF cached = {} THEN {schemaFile} ELSE cached

Satisfies(v, s) ==
  /\ s.type \in {"any", v.type}
  /\ v \in s.enum
  /\ v.type = "string" => v.text \in s.pattern /\ Size[v.text] \in s.lengths
  /\ v.type = "number" => NumberOf[v.text] \in s.range

ValidIn(s, k, v) == k \in DOMAIN s => Satisfies(v, s[k])

\* A bug this code could have had: what is validated is the text of the field.
validateOverridesText(u) ==
  \A s \in LoadActionSchema, k \in Changed(u) :
    ValidIn(s, k, [type |-> "string", text |-> filled[u][k]])

validateOverrides(u) ==
  \A s \in LoadActionSchema, k \in Changed(u) : ValidIn(s, k, Coerce(filled[u][k]))

Merged(u) ==
  [k \in Params |-> IF k \in Changed(u) THEN Coerce(filled[u][k]) ELSE redacted_params[k]]

\* applyApproval counts an approver once, in the status that admits approvals.
Approvable(u) == u \in Allowed /\ status = "ready_for_approval" /\ u \notin approvers
ApplyApproval(u) ==
  /\ approvers' = approvers \cup {u}
  /\ status' = IF Cardinality(approvers') >= MinApprovals THEN "approved" ELSE status

SubmissionInvalid(u) ==
  /\ u \in open \cap Allowed
  /\ WithinLimits(u)
  /\ ~validateOverrides(u)
  /\ cached' = LoadActionSchema
  /\ UNCHANGED <<status, redacted_params, approvers, forms, schemaFile>>

\* The parameters change whether or not the approval is then accepted; the
\* form closes only if it is.
SubmissionMerged(u) ==
  /\ u \in open \cap Allowed
  /\ WithinLimits(u)
  /\ validateOverrides(u)
  /\ cached' = LoadActionSchema
  /\ redacted_params' = Merged(u)
  /\ UNCHANGED schemaFile

SubmitApproved(u) ==
  /\ SubmissionMerged(u)
  /\ Approvable(u)
  /\ ApplyApproval(u)
  /\ open' = open \ {u}
  /\ filled' = [filled EXCEPT ![u] = Empty]
  /\ opened' = [opened EXCEPT ![u] = InitialParams]

SubmitRefused(u) ==
  /\ SubmissionMerged(u)
  /\ ~Approvable(u)
  /\ UNCHANGED <<status, approvers, forms>>

Submit(u) == SubmissionInvalid(u) \/ SubmitApproved(u) \/ SubmitRefused(u)

-----------------------------------------------------------------------------
(* What else happens to the request and to the schema meanwhile.           *)
Approve(u) ==
  /\ Approvable(u)
  /\ ApplyApproval(u)
  /\ UNCHANGED <<redacted_params, forms, schema>>

PersonasAcked ==
  /\ status = "awaiting_personas"
  /\ status' = "ready_for_approval"
  /\ UNCHANGED <<redacted_params, approvers, forms, schema>>

Deny(u) ==
  /\ u \in Allowed
  /\ status \in {"awaiting_personas", "ready_for_approval"}
  /\ status' = "denied"
  /\ UNCHANGED <<redacted_params, approvers, forms, schema>>

\* GET /api/schemas/:action reads the schema through the same cache.
SchemaShown ==
  /\ cached' = LoadActionSchema
  /\ UNCHANGED <<status, redacted_params, approvers, forms, schemaFile>>

EditSchema ==
  /\ schemaFile' \in SchemaFiles \ {schemaFile}
  /\ UNCHANGED <<status, redacted_params, approvers, forms, cached>>

OverridesNext ==
  \/ \E u \in Users : OpenForm(u) \/ Submit(u) \/ Approve(u) \/ Deny(u)
  \/ \E u \in Users, k \in OverrideKeys, t \in Texts \cup {Blank} : EditField(u, k, t)
  \/ PersonasAcked
  \/ SchemaShown \/ EditSchema

OverridesSpec == OverridesInit /\ [][OverridesNext]_overrideVars

-----------------------------------------------------------------------------
\* Whatever edits met on the record, every parameter still has the value it
\* was created with, or one of a listed key that the schema lets through -
\* the schema as it was when it was first read.
EditsValid ==
  \A k \in Params : redacted_params[k] # InitialParams[k] =>
    /\ k \in OverrideKeys
    /\ \E s \in cached : ValidIn(s, k, redacted_params[k])

\* A parameter changes value or type only if an approver edited its field, or
\* if it changed under the approver's open form.
UntouchedKept ==
  [][\A k \in Params : redacted_params'[k] # redacted_params[k] =>
       \E u \in open \cap Allowed :
         \/ filled[u][k] # Shown(opened[u][k])
         \/ redacted_params[k] # opened[u][k]]_overrideVars

\* What changes the parameters leaves them as one approver's form shows them,
\* in every field that is not empty: nobody approves values the form did not
\* show, even when the record changed after the form opened.
FormHonoured ==
  [][redacted_params' # redacted_params =>
       \E u \in open \cap Allowed : \A k \in OverrideKeys :
         filled[u][k] # Blank =>
           Shown(redacted_params'[k]) \in {filled[u][k], Shown(Coerce(filled[u][k]))}]_overrideVars
=============================================================================
