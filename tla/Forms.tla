--------------------------------- MODULE Forms ---------------------------------
(***************************************************************************)
(* The form (registry/FormCard) and the email composer                     *)
(* (registry/EmailComposerCard) of a generated UI, which copy what they    *)
(* are given into a state the user edits, and copy it again in an effect   *)
(* whenever a render computes it anew.                                     *)
(*                                                                         *)
(* Objects matter by identity here: a memo is kept while its dependencies  *)
(* are the same objects, and the renderer makes new props at each of its   *)
(* renders. A render and the state it shows are one step, its effect is    *)
(* the next. Labels, kinds of fields and the template of the submitted     *)
(* payload are left out.                                                   *)
(***************************************************************************)
EXTENDS FiniteSets

CONSTANTS
    Kinds,          \* "form", "email" or both
    Fields,
    Required,       \* fields that must not be blank
    Texts,          \* what is typed or given
    Blank,
    None

VARIABLES
    kind,       \* one of Kinds
    props,      \* initialValues: what they give each field, or None if there are none
    data,       \* likewise what is at the data key
    initial,    \* what the last render computed from them
    form,       \* the state shown
    pending,    \* the last render computed it anew: its effect is still to run
    sent,       \* what was submitted last, and what the user had typed
    typed,      \* history: what the user typed in each field, since the last reset
    rendered    \* history: the parent rendered since then

given == <<kind, props>>
vars == <<given, data, initial, form, pending, sent, typed, rendered>>

Values == Texts \cup {Blank}
Gifts == {None} \cup [Fields -> Values \cup {None}]
Untouched == [f \in Fields |-> None]

-----------------------------------------------------------------------------

From(gift, f) == IF gift = None THEN None ELSE gift[f]

\* toInitialValues and normalizeDraft: the props' value of a field, or the data's.
Initial(p, d) ==
    [f \in Fields |-> CASE From(p, f) # None -> p[f]
                        [] From(p, f) = None /\ From(d, f) # None -> d[f]
                        [] OTHER -> Blank]

\* Mutant of Recomputed: what is missing is a new object in the email composer too.
RecomputedFresh(byParent) == byParent \/ props = None \/ data = None

\* Whether a render computes the initial values anew. The parent's renders bring
\* new props. In those of the state's own, the form makes a new object out of
\* each of the two that is missing; the composer keeps everything.
Recomputed(byParent) == byParent \/ (kind = "form" /\ (props = None \/ data = None))

\* The component is rendered because its own state changed.
Rerender == pending' = (pending \/ Recomputed(FALSE)) /\ initial' = Initial(props, data)

\* The parent renders, with other data or the same.
ParentRender(d) ==
    /\ data' = d
    /\ initial' = Initial(props, d)
    /\ pending' = (pending \/ Recomputed(TRUE))
    /\ rendered' = TRUE
    /\ UNCHANGED <<given, form, sent, typed>>

\* The composer keeps its draft when it says the same; the form sets a new object
\* and is rendered again.
Effect ==
    /\ pending
    /\ form' = initial
    /\ IF kind = "email" /\ form = initial THEN pending' = FALSE ELSE pending' = Recomputed(FALSE)
    /\ UNCHANGED <<given, data, initial, sent, typed, rendered>>

\* A change of an input.
UpdateField(f, v) ==
    /\ form[f] # v
    /\ form' = [form EXCEPT ![f] = v]
    /\ typed' = [typed EXCEPT ![f] = v]
    /\ Rerender
    /\ UNCHANGED <<given, data, sent, rendered>>

\* The reset button. An effect that is still to run may yet undo what comes next.
Reset ==
    /\ form' = initial
    /\ typed' = Untouched /\ rendered' = pending
    /\ Rerender
    /\ UNCHANGED <<given, data, sent>>

CanSend ==
    IF kind = "form" THEN \A f \in Required : form[f] # Blank ELSE \E f \in Fields : form[f] # Blank

\* submit, or openGmail: nothing of the component's own changes.
Submit ==
    /\ CanSend
    /\ sent' = [values |-> form, typed |-> typed]
    /\ UNCHANGED <<given, data, initial, form, pending, typed, rendered>>

-----------------------------------------------------------------------------

Init ==
    /\ kind \in Kinds /\ props \in Gifts /\ data \in Gifts
    /\ initial = Initial(props, data) /\ form = initial
    /\ pending = FALSE
    /\ sent = None /\ typed = Untouched /\ rendered = FALSE

Next ==
    \/ Effect \/ Reset \/ Submit
    \/ \E d \in Gifts : ParentRender(d)
    \/ \E f \in Fields, v \in Values : UpdateField(f, v)

Spec == Init /\ [][Next]_vars

-----------------------------------------------------------------------------
(* What must hold                                                          *)

\* What the user typed is lost to nothing but a render of the parent, except in a
\* form that lacks one of its two sources.
EditsLostOnlyToRenders ==
    ~rendered /\ ~(kind = "form" /\ None \in {props, data}) =>
        \A f \in Fields : typed[f] # None => form[f] = typed[f]

\* A form the user left alone shows what it is given, also when that changed, once
\* its effects ran.
UntouchedShowsGiven == ~pending /\ typed = Untouched => form = Initial(props, data)

\* docsMetadata, of the composer: "Edit the draft, then open Gmail with all fields
\* preserved." What leaves for Gmail says what the user typed.
AllFieldsPreserved ==
    kind = "email" /\ sent # None =>
        \A f \in Fields : sent.typed[f] # None => sent.values[f] = sent.typed[f]

\* A form shows what the user typed, and what it is given where nothing was typed.
FormKeepsInput == EditsLostOnlyToRenders /\ UntouchedShowsGiven

=============================================================================
