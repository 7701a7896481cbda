------------------------------ MODULE CallStack ------------------------------
(***************************************************************************)
(* What the simulator keeps of the calls of a program: the stack of dbgstack_t *)
(* (dbgstack.cc) and the profile of profiling_t (profiling.cc), as calls,      *)
(* returns and the end of the run update them (i_cfl_t::push_dbgstack and      *)
(* pop_dbgstack, simulator_t::run).                                        *)
(*                                                                         *)
(* A call leaves the place it returns to; interrupts and traps are calls too. *)
(* The program may also return past several frames, as longjmp does.  Stack   *)
(* pointers, which are only printed, and the shortest and longest time of a   *)
(* function are left out.                                                  *)
(***************************************************************************)
EXTENDS Naturals, Sequences, SequencesExt

CONSTANTS
  Functions,
  Places,      \* where calls return to
  Entry,       \* the function the run starts with
  Target,      \* print_function, another of the functions or none of them
  Jumps,       \* the program may return past frames
  MaxCycle, MaxDepth   \* bounds

VARIABLES
  cycle,
  frames,    \* the program's own frames, [function, place]
  debug,     \* dbgstack_t: stack
  found,     \* found_print_function
  profile,   \* profiling_t
  report,    \* the profile as it is printed in this step, or nothing
  spent,     \* how often functions were called since the last reset, the
             \* cycles they ran, and the cycles they were active
  below,      \* the frames below the last reset
  jumped, ended

vars == <<cycle, frames, debug, found, profile, report, spent, below, jumped, ended>>

NoReport == <<>>
Frame(f, place) == [function |-> f, place |-> place]
Unspent == [f \in Functions |-> [calls |-> 0, self |-> 0, total |-> 0]]

-----------------------------------------------------------------------------
(* profiling_t.                                                            *)

NewInfo == [calls |-> 0, depth |-> 0, entered |-> 0, self |-> 0, total |-> 0]

LOCAL With(info, f) == IF f \in DOMAIN info THEN info ELSE info @@ (f :> NewInfo)

\* Faulty: time is not taken anew.
EnterLate(p, f) ==
  LET known == With(p.info, f) IN
  [p EXCEPT !.stack = Append(@, f),
            !.info = [known EXCEPT ![f].calls = @ + 1, ![f].entered = cycle,
                                   ![f].depth = @ + 1]]

\* profiling_t::enter: the cycles so far are the caller's.
Enter(p, f) ==
  LET known == With(p.info, f)
      called == p.stack # <<>>
      counted == called /\ Last(p.stack) \in DOMAIN known
      info == IF counted THEN [known EXCEPT ![Last(p.stack)].self = @ + cycle - p.last]
              ELSE known
  IN
  [p EXCEPT !.stack = Append(@, f), !.last = cycle,
            !.entry = IF called /\ ~ counted THEN f ELSE @,
            !.info = [info EXCEPT ![f].calls = @ + 1,
                                  ![f].entered = IF info[f].depth = 0 THEN cycle ELSE @,
                                  ![f].depth = @ + 1]]

\* Faulty: every return adds to the total, recursive ones too.
LeaveEach(p) ==
  LET f == Last(p.stack)
      info == With(p.info, f)
  IN
  [p EXCEPT !.stack = Front(@), !.last = cycle,
            !.info = [info EXCEPT ![f].self = @ + cycle - p.last,
                                  ![f].depth = @ - 1,
                                  ![f].total = @ + cycle - info[f].entered]]

\* profiling_t::leave; a function entered before the last reset is taken for
\* entered then.
Leave(p) ==
  IF p.stack = <<>> THEN p
  ELSE
    LET f == Last(p.stack)
        known == f \in DOMAIN p.info
        info == IF known THEN p.info
                ELSE p.info @@ (f :> [NewInfo EXCEPT !.entered = p.reset, !.depth = 1])
    IN
    [p EXCEPT !.stack = Front(@), !.last = cycle, !.entry = IF known THEN @ ELSE f,
              !.info = [info EXCEPT ![f].self = @ + cycle - p.last,
                                    ![f].depth = @ - 1,
                                    ![f].total = IF info[f].depth = 1
                                                 THEN @ + cycle - info[f].entered ELSE @]]

\* profiling_t::reset_stats
Reset(p) == [p EXCEPT !.reset = cycle, !.info = <<>>]

\* profiling_t::finalize: all frames are left.
Finalized(p) == FoldFunction(LAMBDA f, q : Leave(q), p, p.stack)

-----------------------------------------------------------------------------
(* dbgstack_t, and the two together.                                       *)

\* Is this the call that statistics are printed of?
Triggers(f) == f = Target /\ ~ found

\* simulator_t::run: the cycle ends with these frames, of which those above `reset` are
\* counted.
Tick(now, reset, counted) ==
  /\ cycle < MaxCycle /\ ~ ended
  /\ cycle' = cycle + 1
  /\ frames' = now
  /\ below' = reset
  /\ spent' = [f \in Functions |->
       LET self == IF Last(now).function = f THEN 1 ELSE 0
           total == IF \E k \in reset + 1 .. Len(now) : now[k].function = f THEN 1 ELSE 0
       IN
       [counted[f] EXCEPT !.self = @ + self, !.total = @ + total]]

\* push_dbgstack: the debug stack first, which may reset the statistics.
Call(f, place) ==
  /\ Len(frames) < MaxDepth
  /\ debug' = Append(debug, Frame(f, place) @@ [prints |-> Triggers(f)])
  /\ found' = (found \/ f = Target)
  /\ profile' = Enter(IF Triggers(f) THEN Reset(profile) ELSE profile, f)
  /\ report' = NoReport
  /\ Tick(Append(frames, Frame(f, place)),
          IF Triggers(f) THEN Len(frames) ELSE below,
          [(IF Triggers(f) THEN Unspent ELSE spent) EXCEPT ![f].calls = @ + 1])
  /\ UNCHANGED <<jumped, ended>>

\* What is printed, and what the program did until then.
Printed == [info |-> profile'.info, entry |-> profile'.entry, truth |-> spent]

\* Faulty: the flag is not cleared.
PopKeepsPrinting(place) ==
  LET matches == debug # <<>> /\ Last(debug).place = place IN
  /\ debug' = IF matches THEN Front(debug) ELSE debug
  /\ report' = IF matches /\ Last(debug).prints THEN Printed ELSE NoReport
  /\ found' = found

\* dbgstack_t::pop: only the frame that returns to this place.
Pop(place) ==
  LET matches == debug # <<>> /\ Last(debug).place = place
      prints == matches /\ Last(debug).prints
  IN
  /\ debug' = IF matches THEN Front(debug) ELSE debug
  /\ report' = IF prints THEN Printed ELSE NoReport
  /\ found' = (found /\ ~ prints)

\* pop_dbgstack; a return from n frames at once leaves one of them.
Return(n) ==
  LET left == Len(frames) - n IN
  /\ left > 0
  /\ profile' = Leave(profile)
  /\ Pop(frames[left + 1].place)
  /\ jumped' = (jumped \/ n > 1)
  /\ Tick(SubSeq(frames, 1, left), below, spent)
  /\ UNCHANGED ended

\* A cycle without a call or a return.
Cycle ==
  /\ Tick(frames, below, spent)
  /\ report' = NoReport
  /\ UNCHANGED <<debug, found, profile, jumped, ended>>

\* The return to 0 halts, with no pop; statistics are printed at the end if they
\* are of the whole run.
Halt ==
  /\ ~ ended /\ Len(frames) = 1
  /\ ended' = TRUE
  /\ profile' = Finalized(profile)
  /\ report' = IF Target \in Functions THEN NoReport ELSE Printed
  /\ UNCHANGED <<cycle, frames, debug, found, spent, below, jumped>>

Init ==
  /\ cycle = 0
  /\ frames = <<Frame(Entry, 0)>>
  /\ debug = <<Frame(Entry, 0) @@ [prints |-> FALSE]>>
  /\ found = FALSE
  /\ profile = Enter([stack |-> <<>>, info |-> <<>>, entry |-> Entry,
                      last |-> 0, reset |-> 0], Entry)
  /\ report = NoReport
  /\ spent = [Unspent EXCEPT ![Entry].calls = 1]
  /\ below = 0
  /\ jumped = FALSE /\ ended = FALSE

Next ==
  \/ \E f \in Functions, place \in Places : Call(f, place)
  \/ \E n \in 1 .. IF Jumps THEN MaxDepth ELSE 1 : Return(n)
  \/ Cycle
  \/ Halt

Spec == Init /\ [][Next]_vars

-----------------------------------------------------------------------------
\* A printed profile has, of every function called since the last reset, its calls,
\* the cycles it ran and those it was active in, recursion counted once; and the entry
\* that percentages refer to is in it.  Programs that jump past frames are left out:
\* leave pops one frame for them.
ProfileExact ==
  report # NoReport /\ ~ jumped =>
    /\ report.entry \in DOMAIN report.info
    /\ \A f \in Functions :
         IF f \in DOMAIN report.info
         THEN LET printed == report.info[f] IN
              report.truth[f] = [calls |-> printed.calls, self |-> printed.self,
                                 total |-> printed.total]
         ELSE report.truth[f].calls = 0

\* The debug stack has all frames of the program in their order, and no others but
\* for jumps; statistics are collected for one call at a time, whose frame it has.
FramesKnown ==
  LET recorded == [k \in 1 .. Len(debug) |-> Frame(debug[k].function, debug[k].place)]
      Subsequence(D) == LET n(k) == Cardinality({j \in D : j <= k}) IN
        Cardinality(D) = Len(frames) /\ \A k \in D : recorded[k] = frames[n(k)]
  IN
  /\ IF jumped THEN \E D \in SUBSET DOMAIN recorded : Subsequence(D) ELSE frames = recorded
  /\ Cardinality({k \in 1 .. Len(debug) : debug[k].prints}) = IF found THEN 1 ELSE 0

CallsRecorded == ProfileExact /\ FramesKnown
=============================================================================
