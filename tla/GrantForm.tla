-------------------------------- MODULE GrantForm --------------------------------
(***************************************************************************)
(* The form that creates a grant: four steps with what each needs to be    *)
(* continued, the calculator that distributes the budget over the          *)
(* milestones, and the draft, which localStorage keeps and a timer saves.  *)
(* Amounts are in half cents, the calculator rounds to cents.  Step 4 and  *)
(* its transaction are in WebTransactions.                                 *)
(***************************************************************************)
EXTENDS Integers, SequencesExt, FiniteSetsExt

CONSTANTS Budgets,           \* values typed for the budget, and for a reward
          MaxMilestones,     \* at most this many milestones (10 in the code)
          MaxReviewerSeats,  \* at most this many reviewers (7 in the code)
          DraftDays,         \* MAX_DRAFT_AGE_MS
          MaxTyped           \* bound: edits of the user

ASSUME GrantFormAssumption ==
    /\ Budgets \subseteq Nat /\ MaxMilestones \in Nat \ {0} /\ MaxReviewerSeats \in Nat
    /\ {DraftDays, MaxTyped} \subseteq Nat

VARIABLES
    form,         \* basics (title, recipient, deadline... are valid), budget, milestones,
                  \* seats (reviewers), seated (they are valid and differ), quorum
    step,         \* currentStep
    formRows,     \* milestones that are shown: useFieldArray's fields
    calc,         \* the calculator: mode, weights, previousRewards, showUndo
    draft,        \* the hook's draft
    storedDraft,  \* localStorage: the draft and the day it was saved
    formDay,
    formEdits     \* edits so far

formVars == <<form, step, formRows, calc, draft, storedDraft, formDay, formEdits>>

NoDraft == [step |-> 0, form |-> <<>>]
NothingStored == [draft |-> NoDraft, saved |-> 0]
DefaultForm == [basics |-> FALSE, budget |-> 200, milestones |-> <<[reward |-> 200, named |-> FALSE]>>,
                seats |-> 3, seated |-> FALSE, quorum |-> 2]
\* The calculator is mounted with step 2.
FreshCalc == [mode |-> "none", weights |-> <<>>, previous |-> <<>>, undo |-> FALSE]

SumOf(seq) == FoldSeq(LAMBDA x, y : x + y, 0, seq)
Rewards(f) == [i \in DOMAIN f.milestones |-> f.milestones[i].reward]
Balanced(f) == SumOf(Rewards(f)) = f.budget
\* BudgetDistributionChart: a bar of the rewards and of what is left or too much, and
\* what is said below it.
Unallocated(f) == Max({0, f.budget - SumOf(Rewards(f))})
OverBy(f) == Max({0, SumOf(Rewards(f)) - f.budget})
Widths(f) == Rewards(f) \o <<Unallocated(f), OverBy(f)>>
\* Segments keep their places; one of no width is not drawn.
Bar(f) == IF f.budget = 0 THEN <<>>
          ELSE [i \in {k \in DOMAIN Widths(f) : Widths(f)[k] > 0} |-> Widths(f)[i]]
ChartSays(f) == CASE f.budget = 0 -> "set a budget"
                  [] OverBy(f) > 0 -> "over budget"
                  [] Unallocated(f) > 0 -> "unallocated"
                  [] OTHER -> "fully allocated"

\* The fields of a step are valid, and what handleContinue() looks at itself.
BasicsDone(f) == f.basics /\ f.budget > 0
MilestonesDone(f) ==
    /\ \A i \in DOMAIN f.milestones : f.milestones[i].named /\ f.milestones[i].reward > 0
    /\ Len(f.milestones) \in 1..MaxMilestones
    /\ Balanced(f)
ReviewersDone(f) == f.seated /\ f.seats \in 3..MaxReviewerSeats /\ f.quorum \in 1..f.seats
Done(s, f) == CASE s = 1 -> BasicsDone(f) [] s = 2 -> MilestonesDone(f) [] OTHER -> ReviewersDone(f)

Typing == /\ formEdits < MaxTyped /\ formEdits' = formEdits + 1

-----------------------------------------------------------------------------
(* The steps *)

Continue ==
    /\ step < 4 /\ Done(step, form)
    /\ step' = step + 1
    /\ calc' = FreshCalc
    /\ UNCHANGED <<form, formRows, draft, storedDraft, formDay, formEdits>>

\* Mutation: the next step can be chosen as well.
CompletedOrNext(s) == s <= step + 1
\* Back, or a completed step of the indicator; step 4 has the indicator only.
Completed(s) == s < step
GoBack(to) ==
    /\ Completed(to)
    /\ step' = to /\ formRows' = Len(form.milestones)
    /\ calc' = FreshCalc
    /\ UNCHANGED <<form, draft, storedDraft, formDay, formEdits>>

\* Step 1
EditBasics(valid, budget) ==
    /\ step = 1 /\ Typing
    /\ form' = [form EXCEPT !.basics = valid, !.budget = budget]
    /\ UNCHANGED <<step, formRows, calc, draft, storedDraft, formDay>>

\* Step 2: the calculator's weights start anew when the number of rows changes.
Reset(n) == [calc EXCEPT !.weights = [i \in 1..n |-> 1]]
AddMilestone ==
    /\ step = 2 /\ formRows < MaxMilestones /\ Typing
    /\ form' = [form EXCEPT !.milestones = Append(@, [reward |-> 0, named |-> FALSE])]
    /\ formRows' = Len(form'.milestones) /\ calc' = Reset(formRows')
    /\ UNCHANGED <<step, draft, storedDraft, formDay>>
RemoveMilestone(i) ==
    /\ step = 2 /\ formRows > 1 /\ i \in 1..formRows /\ Typing
    /\ form' = [form EXCEPT !.milestones = RemoveAt(@, i)]
    /\ formRows' = Len(form'.milestones) /\ calc' = Reset(formRows')
    /\ UNCHANGED <<step, draft, storedDraft, formDay>>
MoveMilestone(i, j) ==
    /\ step = 2 /\ {i, j} \subseteq 1..formRows /\ i # j /\ Typing
    /\ form' = [form EXCEPT !.milestones = InsertAt(RemoveAt(@, i), j, @[i])]
    /\ UNCHANGED <<step, formRows, calc, draft, storedDraft, formDay>>
EditMilestone(i, reward) ==
    /\ step = 2 /\ i \in 1..formRows /\ Typing
    /\ form' = [form EXCEPT !.milestones[i] = [reward |-> reward, named |-> TRUE]]
    /\ UNCHANGED <<step, formRows, calc, draft, storedDraft, formDay>>

\* Step 3
EditSeats(seats, seated) ==
    /\ step = 3 /\ Typing
    /\ form' = [form EXCEPT !.seats = seats, !.seated = seated]
    /\ UNCHANGED <<step, formRows, calc, draft, storedDraft, formDay>>
\* The seat that is added is empty.
AddReviewerSeat == form.seats < MaxReviewerSeats /\ EditSeats(form.seats + 1, FALSE)
\* One less may be the one that was wrong, or given twice.
RemoveReviewerSeat(seated) ==
    form.seats > 3 /\ (form.seated => seated) /\ EditSeats(form.seats - 1, seated)
EditReviewer(seated) == EditSeats(form.seats, seated)
EditQuorum(quorum) ==
    /\ step = 3 /\ Typing
    /\ form' = [form EXCEPT !.quorum = quorum]
    /\ UNCHANGED <<step, formRows, calc, draft, storedDraft, formDay>>

-----------------------------------------------------------------------------
(* The calculator *)

\* The fraction num / den, rounded to a cent.
RoundCents(num, den) == 2 * ((num + den) \div (2 * den))

\* Mutation: rewards stay as they were rounded.
RewardsAsRounded(rewards, budget) == rewards
\* What is missing goes to the last milestone.
SettledRewards(rewards, budget) ==
    LET n == Len(rewards) diff == RoundCents(budget - SumOf(rewards), 1) IN
    IF n = 0 THEN rewards ELSE [rewards EXCEPT ![n] = RoundCents(@ + diff, 1)]
Equal(budget, n) == [i \in 1..n |-> RoundCents(budget, n)]
FrontLoad(budget, n) ==
    LET first == RoundCents(budget * 5, 10) second == RoundCents(budget * 3, 10) IN
    CASE n = 1 -> <<budget>>
      [] n = 2 -> <<RoundCents(budget * 6, 10), RoundCents(budget - RoundCents(budget * 6, 10), 1)>>
      [] OTHER -> [i \in 1..n |-> IF i = 1 THEN first ELSE IF i = 2 THEN second
                                  ELSE RoundCents(budget - first - second, n - 2)]
Weighted(budget, weights) ==
    [i \in DOMAIN weights |-> RoundCents(weights[i] * budget, SumOf(weights))]
Distribution(mode, budget, n, weights) ==
    SettledRewards(CASE mode = "equal" -> Equal(budget, n)
              [] mode = "front" -> FrontLoad(budget, n)
              [] OTHER -> Weighted(budget, weights), budget)

\* setValue() of each reward: one that has no milestone makes one of its own,
\* without a title, which no row shows.
WithRewards(milestones, rewards) ==
    [i \in 1..Max({Len(milestones), Len(rewards)}) |->
        [reward |-> IF i <= Len(rewards) THEN rewards[i] ELSE milestones[i].reward,
         named |-> i <= Len(milestones) /\ milestones[i].named]]
OnDistribute(rewards) == form' = [form EXCEPT !.milestones = WithRewards(@, rewards)]

DistributeBy(mode, weights) ==
    /\ step = 2 /\ form.budget > 0 /\ Typing
    /\ OnDistribute(Distribution(mode, form.budget, formRows, weights))
    /\ calc' = [mode |-> mode, weights |-> weights, previous |-> Rewards(form), undo |-> TRUE]
    /\ UNCHANGED <<step, formRows, draft, storedDraft, formDay>>
Distribute(mode) ==
    /\ mode = "custom" => calc.mode # "custom"
    /\ DistributeBy(mode, calc.weights)
CloseCustom ==
    /\ step = 2 /\ calc.mode = "custom"
    /\ calc' = [calc EXCEPT !.mode = "none"]
    /\ UNCHANGED <<form, step, formRows, draft, storedDraft, formDay, formEdits>>
\* A slider, which there is one of for each weight.
UpdateWeight(i, weight) ==
    /\ calc.mode = "custom" /\ i \in DOMAIN calc.weights
    /\ DistributeBy("custom", [calc.weights EXCEPT ![i] = weight])
\* Offered for five seconds; the first click of several ends them for all.
HideUndo ==
    /\ calc.undo
    /\ calc' = [calc EXCEPT !.undo = FALSE]
    /\ UNCHANGED <<form, step, formRows, draft, storedDraft, formDay, formEdits>>
Undo ==
    /\ step = 2 /\ calc.undo /\ calc.previous # <<>> /\ Typing
    /\ OnDistribute(calc.previous)
    /\ calc' = [calc EXCEPT !.previous = <<>>, !.undo = FALSE, !.mode = "none"]
    /\ UNCHANGED <<step, formRows, draft, storedDraft, formDay>>

-----------------------------------------------------------------------------
(* The draft *)

\* Two seconds after anything was drawn, what the form holds is saved: after a
\* save too, which is drawn.
SaveDraft(data) == draft' = data /\ storedDraft' = [draft |-> data, saved |-> formDay]
AutoSave ==
    /\ SaveDraft([step |-> step, form |-> form])
    /\ UNCHANGED <<form, step, formRows, calc, formDay, formEdits>>

\* The banner's two buttons.
BannerOffers == draft # NoDraft
Restore ==
    /\ BannerOffers /\ draft # [step |-> step, form |-> form]
    /\ form' = draft.form /\ step' = draft.step
    /\ formRows' = Len(form'.milestones)
    /\ calc' = IF step = 2 /\ step' = 2
               THEN IF formRows' = formRows THEN calc ELSE Reset(formRows') ELSE FreshCalc
    /\ UNCHANGED <<draft, storedDraft, formDay, formEdits>>
Discard ==
    /\ BannerOffers
    /\ draft' = NoDraft /\ storedDraft' = NothingStored
    /\ UNCHANGED <<form, step, formRows, calc, formDay, formEdits>>

\* The page is left and opened again, now or `later` days on: a draft of 72 hours
\* is offered, an older one removed.
Reopen(later) ==
    /\ formDay + later <= DraftDays + 1
    /\ formDay' = formDay + later
    /\ LET fresh == storedDraft # NothingStored /\ formDay' - storedDraft.saved <= DraftDays IN
       /\ storedDraft' = IF fresh THEN storedDraft ELSE NothingStored
       /\ draft' = IF fresh THEN storedDraft.draft ELSE NoDraft
    /\ form' = DefaultForm /\ step' = 1 /\ formRows' = 1 /\ calc' = FreshCalc
    /\ UNCHANGED formEdits

-----------------------------------------------------------------------------

FormInit ==
    /\ form = DefaultForm /\ step = 1 /\ formRows = 1 /\ calc = FreshCalc
    /\ draft = NoDraft /\ storedDraft = NothingStored /\ formDay = 0
    /\ formEdits = 0

FormNext ==
    \/ Continue \/ \E to \in 1..3 : GoBack(to)
    \/ \E valid \in BOOLEAN, budget \in Budgets : EditBasics(valid, budget)
    \/ AddMilestone
    \/ \E i \in 1..MaxMilestones :
        \/ RemoveMilestone(i) \/ \E j \in 1..MaxMilestones : MoveMilestone(i, j)
        \/ \E reward \in Budgets : EditMilestone(i, reward)
        \/ \E weight \in 1..2 : UpdateWeight(i, weight)
    \/ AddReviewerSeat \/ \E seated \in BOOLEAN : RemoveReviewerSeat(seated) \/ EditReviewer(seated)
    \/ \E quorum \in {0, 3, MaxReviewerSeats} : EditQuorum(quorum)
    \/ \E mode \in {"equal", "front", "custom"} : Distribute(mode)
    \/ CloseCustom \/ HideUndo \/ Undo
    \/ AutoSave \/ Restore \/ Discard \/ \E later \in {0, 1, DraftDays + 1} : Reopen(later)

-----------------------------------------------------------------------------

\* Whatever steps were gone back over, distributions undone and drafts restored: a
\* form at a step has passed the ones before it, and the rewards of a form that is
\* reviewed are its budget.  A draft is a form with the step it was at, so it
\* brings no form to a step it had not reached.
Earned(s, f) ==
    /\ s >= 2 => BasicsDone(f)
    /\ s >= 3 => MilestonesDone(f) /\ ChartSays(f) = "fully allocated" /\ Bar(f) = Rewards(f)
    /\ s = 4 => ReviewersDone(f)
StepIsEarned ==
    /\ Earned(step, form)
    /\ draft # NoDraft => Earned(draft.step, draft.form)
    /\ storedDraft # NothingStored => Earned(storedDraft.draft.step, storedDraft.draft.form)

\* The calculator's rewards add up to a budget of whole cents, and miss another one
\* by no more than the rounding of a cent.
DistributionBalances ==
    [][\A mode \in {"equal", "front", "custom"} :
         Distribute(mode) /\ formRows = Len(form.milestones) /\ (mode = "custom" => calc.weights # <<>>)
            => LET left == form.budget - SumOf(Rewards(form')) IN
               left \in {-1, 0, 1} /\ (form.budget % 2 = 0 => left = 0)]_formVars
-----------------------------------------------------------------------------
(***************************************************************************)
(* The boxes for addresses: the recipient's in step 1, and the reviewers'  *)
(* in step 3, which are numbered.  Each keeps a mark of its own of whether *)
(* its text is an address, and forgets to take it off once after a paste.  *)
(***************************************************************************)

CONSTANTS MinSeats,    \* the fewest boxes for reviewers (3 in the code)
          MaxSeats,    \* and the most (7)
          MaxBoxEdits  \* bound: what the user does

ASSUME AddressBoxAssumption == MinSeats \in Nat \ {0} /\ {MaxSeats, MaxBoxEdits} \subseteq Nat

VARIABLES
    boxesFor,   \* "recipient" or "reviewers"
    boxes,      \* each: text, mark, and skipValidationResetRef
    focus,      \* the box the cursor is in, 0 for none
    misled,     \* history: boxes whose mark came from something else than their text
    boxEdits

boxVars == <<boxesFor, boxes, focus, misled, boxEdits>>

\* Texts: addresses a and b, letters x, a space.
IsAddress(text) == text \in {<<"a">>, <<"b">>}
Pastes == {<<"a">>, <<"a", " ">>, <<"x">>, <<" ">>}
TypedTexts == {<<>>, <<"b">>, <<"x">>}
NoBox == [text |-> <<>>, mark |-> "none", skip |-> FALSE]
MineIs == <<"b">>

UseBox == boxEdits < MaxBoxEdits /\ boxEdits' = boxEdits + 1 /\ UNCHANGED boxesFor

\* What the mark of a text is, once the cursor leaves it.
ValidateValue(text) == IF text = <<>> THEN "none" ELSE IF IsAddress(text) THEN "valid" ELSE "invalid"
\* A change takes the mark off, unless the change is of a paste that was judged.
HandleChange(box, text) ==
    [text |-> text, mark |-> IF box.skip THEN box.mark ELSE "none", skip |-> FALSE]
Blurred == IF focus = 0 THEN boxes ELSE [boxes EXCEPT ![focus].mark = ValidateValue(boxes[focus].text)]

FocusOn(i) ==
    /\ i # focus /\ i \in 0..Len(boxes) /\ UseBox
    /\ focus' = i /\ boxes' = Blurred /\ misled' = misled \ {focus}
TypeInBox(text) ==
    /\ focus # 0 /\ text # boxes[focus].text /\ UseBox
    /\ boxes' = [boxes EXCEPT ![focus] = HandleChange(@, text)]
    /\ misled' = IF boxes[focus].skip THEN misled \cup {focus} ELSE misled \ {focus}
    /\ UNCHANGED focus
\* pasted.trim(): spaces are at the ends of what is pasted.
Trimmed(clip) == SelectSeq(clip, LAMBDA c : c # " ")
\* What is pasted is judged without its spaces, and replaces the text or follows it; a
\* paste that leaves the text as it was changes nothing.
PasteInBox(clip, text) ==
    /\ focus # 0 /\ text \in {clip, boxes[focus].text \o clip} /\ Len(text) <= 2 /\ UseBox
    /\ LET bare == Trimmed(clip)
           judged == CASE bare = <<>> -> boxes[focus]
                       [] IsAddress(bare) -> [boxes[focus] EXCEPT !.mark = "valid", !.skip = TRUE]
                       [] OTHER -> [boxes[focus] EXCEPT !.mark = "none"]
       IN /\ boxes' = [boxes EXCEPT ![focus] =
                          IF text = judged.text THEN judged ELSE HandleChange(judged, text)]
          /\ misled' = IF boxes'[focus].mark # "none" /\ text # bare THEN misled \cup {focus}
                       ELSE misled \ {focus}
    /\ UNCHANGED focus
UseMyAddress ==
    /\ boxesFor = "recipient" /\ UseBox
    /\ boxes' = [boxes EXCEPT ![1].text = MineIs, ![1].mark = "valid"]
    /\ focus' = 0 /\ misled' = misled \ {1}

AddBox ==
    /\ boxesFor = "reviewers" /\ Len(boxes) < MaxSeats /\ UseBox
    /\ boxes' = Append(Blurred, NoBox) /\ focus' = 0 /\ misled' = misled \ {focus}
\* The texts move up, the marks stay where they are.
RemoveBox(i) ==
    /\ boxesFor = "reviewers" /\ Len(boxes) > MinSeats /\ i \in DOMAIN boxes /\ UseBox
    /\ boxes' = [j \in 1..(Len(boxes) - 1) |->
                    [Blurred[j] EXCEPT !.text = boxes[IF j < i THEN j ELSE j + 1].text]]
    /\ focus' = 0
    /\ misled' = ((misled \ {focus}) \cup {j \in DOMAIN boxes : j >= i}) \cap DOMAIN boxes'

BoxInit ==
    /\ boxesFor \in {"recipient", "reviewers"}
    /\ boxes = [i \in 1..(IF boxesFor = "recipient" THEN 1 ELSE MinSeats) |-> NoBox]
    /\ focus = 0 /\ misled = {} /\ boxEdits = 0
BoxNext ==
    \/ \E i \in 0..MaxSeats : FocusOn(i) \/ RemoveBox(i)
    \/ \E text \in TypedTexts : TypeInBox(text)
    \/ \E clip \in Pastes :
          focus # 0 /\ \E text \in {clip, boxes[focus].text \o clip} : PasteInBox(clip, text)
    \/ UseMyAddress \/ AddBox

\* A mark says what the text is: the green one stands at an address and the red one at
\* a text that is none, unless what was pasted was only a part of the text, a paste that
\* changed nothing came before, or a box above was removed; leaving the box puts it right.
MarkIsTrue ==
    \A i \in DOMAIN boxes : i \notin misled =>
        boxes[i].mark \in {"none", ValidateValue(boxes[i].text)}
=============================================================================
