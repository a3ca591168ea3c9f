------------------------------- MODULE Garden -------------------------------
(* Garden.java of project2: Newton digs holes, Benjamin seeds them and Mary   *)
(* fills them, each in a loop of a start and a done method. The start methods *)
(* test the counters before they take the lock sequencer, and wait at most    *)
(* once; a step is one such test, or what a thread does between two accesses  *)
(* to a lock. A test reads one counter of another thread, without a lock: an  *)
(* old value is what it would have read earlier, going on only now.           *)
(* The prefix of GardenInit and the like lets ThreadProofs extend this module *)
(* beside CyclicBarrier.                                                      *)
EXTENDS Integers

CONSTANTS MaxHoles,     \* bound: how many holes each of them turns to
          MaxWakeUps    \* bound: how often await() ends without a signal

ASSUME HolesAssumption == MaxHoles \in Nat /\ MaxWakeUps \in Nat

VARIABLES holesDug, holesSeeded, holesFilled,
          shovel,       \* who holds the lock shovel, or "nobody"
          doing,        \* the next step of each thread: see GardenTypeOK
          condition,    \* the condition that it tests or waits for
          missed,       \* does it wait since after its condition changed?
          wakeUps       \* how often await() ended without a signal

gardenVars == <<holesDug, holesSeeded, holesFilled, shovel, doing, condition, missed, wakeUps>>
holes == <<holesDug, holesSeeded, holesFilled>>

Gardener == {"Newton", "Benjamin", "Mary"}
Condition == {"fourUnseeded", "eightUnfilled", "oneUnseeded", "oneUnfilled"}

\* The first condition that the start method of w tests.
First == [w \in Gardener |-> CASE w = "Newton" -> "fourUnseeded"
                               [] w = "Benjamin" -> "oneUnseeded"
                               [] w = "Mary" -> "oneUnfilled"]

GardenInit ==
    /\ holesDug = 0 /\ holesSeeded = 0 /\ holesFilled = 0
    /\ shovel = "nobody"
    /\ doing = [w \in Gardener |-> "test"]
    /\ condition = First
    /\ missed = [w \in Gardener |-> FALSE]
    /\ wakeUps = 0

-----------------------------------------------------------------------------
\* Mutant: a fifth hole may be unseeded.
MustWaitAtFive(c) ==
    \/ c = "fourUnseeded" /\ holesDug - holesSeeded = 5
    \/ c = "eightUnfilled" /\ holesDug - holesFilled = 8
    \/ c = "oneUnseeded" /\ holesDug = holesSeeded
    \/ c = "oneUnfilled" /\ holesFilled = holesSeeded

MustWait(c) ==
    \/ c = "fourUnseeded" /\ holesDug - holesSeeded = 4
    \/ c = "eightUnfilled" /\ holesDug - holesFilled = 8
    \/ c = "oneUnseeded" /\ holesDug = holesSeeded
    \/ c = "oneUnfilled" /\ holesFilled = holesSeeded

\* Mutant: Benjamin takes the shovel, too.
AfterWithShovel(c) == IF c = "fourUnseeded" THEN "test" ELSE "shovel"

\* What follows the if statement of condition c.
After(c) == CASE c = "fourUnseeded" -> "test"
              [] c = "oneUnseeded" -> "work"
              [] OTHER -> "shovel"

GoOn(w) ==
    /\ doing' = [doing EXCEPT ![w] = After(condition[w])]
    /\ condition' = [condition EXCEPT ![w] = IF @ = "fourUnseeded" THEN "eightUnfilled" ELSE @]

Done(w) == CASE w = "Newton" -> holesDug [] w = "Benjamin" -> holesSeeded [] w = "Mary" -> holesFilled

Test(w) ==
    /\ doing[w] = "test"
    /\ condition[w] = First[w] => Done(w) < MaxHoles
    /\ IF MustWait(condition[w])
       THEN doing' = [doing EXCEPT ![w] = "lock"] /\ UNCHANGED condition
       ELSE GoOn(w)
    /\ UNCHANGED <<holes, shovel, missed, wakeUps>>

\* sequencer.lock(), await().
AwaitSignal(w) ==
    /\ doing[w] = "lock"
    /\ doing' = [doing EXCEPT ![w] = "await"]
    /\ missed' = [missed EXCEPT ![w] = ~MustWait(condition[w])]
    /\ UNCHANGED <<holes, shovel, condition, wakeUps>>

\* A signalled thread has sequencer again, and unlocks it.
Awake(w) ==
    /\ doing[w] = "awake"
    /\ GoOn(w)
    /\ missed' = [missed EXCEPT ![w] = FALSE]
    /\ UNCHANGED <<holes, shovel, wakeUps>>

\* await() ends without a signal: spuriously, or by an interrupt, whose
\* exception is caught.
WakeUnsignalled(w) ==
    /\ doing[w] = "await"
    /\ wakeUps < MaxWakeUps
    /\ wakeUps' = wakeUps + 1
    /\ doing' = [doing EXCEPT ![w] = "awake"]
    /\ UNCHANGED <<holes, shovel, condition, missed>>

LockShovel(w) ==
    /\ doing[w] = "shovel"
    /\ shovel = "nobody"
    /\ shovel' = w
    /\ doing' = [doing EXCEPT ![w] = "work"]
    /\ UNCHANGED <<holes, condition, missed, wakeUps>>

\* signal() of the conditions in signals, by w, which goes on to next. One
\* thread at most waits for each of them, and a signal to nobody is lost.
Signal(signals, w, next) ==
    doing' = [v \in Gardener |->
             IF v = w THEN next
             ELSE IF doing[v] = "await" /\ condition[v] \in signals THEN "awake"
             ELSE doing[v]]

\* Mutant: whoever waits to fill is not told.
DoneSeedingToldNewton ==
    /\ doing["Benjamin"] = "work"
    /\ holesSeeded' = holesSeeded + 1
    /\ Signal({"fourUnseeded"}, "Benjamin", "test")
    /\ UNCHANGED <<holesDug, holesFilled, shovel, condition, missed, wakeUps>>

DoneDigging ==
    /\ doing["Newton"] = "work"
    /\ holesDug' = holesDug + 1
    /\ Signal({"oneUnseeded"}, "Newton", "unlock")
    /\ UNCHANGED <<holesSeeded, holesFilled, shovel, condition, missed, wakeUps>>

DoneSeeding ==
    /\ doing["Benjamin"] = "work"
    /\ holesSeeded' = holesSeeded + 1
    /\ Signal({"fourUnseeded", "oneUnfilled"}, "Benjamin", "test")
    /\ UNCHANGED <<holesDug, holesFilled, shovel, condition, missed, wakeUps>>

DoneFilling ==
    /\ doing["Mary"] = "work"
    /\ holesFilled' = holesFilled + 1
    /\ Signal({"eightUnfilled"}, "Mary", "unlock")
    /\ UNCHANGED <<holesDug, holesSeeded, shovel, condition, missed, wakeUps>>

\* shovel.unlock(), and the next start method.
UnlockShovel(w) ==
    /\ doing[w] = "unlock"
    /\ shovel' = "nobody"
    /\ doing' = [doing EXCEPT ![w] = "test"]
    /\ condition' = [condition EXCEPT ![w] = First[w]]
    /\ UNCHANGED <<holes, missed, wakeUps>>

Step(w) ==
    \/ Test(w) \/ AwaitSignal(w) \/ Awake(w)
    \/ LockShovel(w) \/ UnlockShovel(w)
    \/ w = "Newton" /\ DoneDigging
    \/ w = "Benjamin" /\ DoneSeeding
    \/ w = "Mary" /\ DoneFilling

GardenNext == \E w \in Gardener : Step(w) \/ WakeUnsignalled(w)

GardenSpec == GardenInit /\ [][GardenNext]_gardenVars

\* The threads keep running, and get the locks, which nobody holds while waiting.
FairGardenSpec == GardenSpec /\ \A w \in Gardener : WF_gardenVars(Step(w))

-----------------------------------------------------------------------------
\* Every variable has its type.
GardenTypeOK ==
    /\ holesDug \in Nat /\ holesSeeded \in Nat /\ holesFilled \in Nat
    /\ shovel \in {"nobody", "Newton", "Mary"}
    /\ doing \in [Gardener -> {"test", "lock", "await", "awake", "shovel", "work", "unlock"}]
    /\ condition \in [Gardener -> Condition]
    /\ missed \in [Gardener -> BOOLEAN]
    /\ wakeUps \in 0 .. MaxWakeUps

\* Who works may work: Newton while less than four holes are unseeded and less
\* than eight unfilled, Benjamin on a hole that is dug, Mary on one that is
\* seeded; although they test without the lock, work later, and are woken by a
\* signal after which they do not test again.
MayWork ==
    wakeUps = 0 =>
        /\ doing["Newton"] = "work" => holesDug - holesSeeded < 4 /\ holesDug - holesFilled < 8
        /\ doing["Benjamin"] = "work" => holesSeeded < holesDug
        /\ doing["Mary"] = "work" => holesFilled < holesSeeded

\* No signal is left out: who waits although there is no reason to had tested
\* the condition before it changed, and locked sequencer after.
SignalledUnlessMissed ==
    \A w \in Gardener : doing[w] = "await" /\ ~MustWait(condition[w]) => missed[w]

\* All holes are filled in the end, if nobody misses a signal.
AllFilled == [](wakeUps = 0 /\ \A w \in Gardener : ~missed[w]) => <>[](holesFilled = MaxHoles)

\* Garden.java:33 and 80: "dig waiting for seed" and "seed waiting for dig" do
\* not hold at once.
NotBothWaiting ==
    ~(/\ doing["Newton"] = "await" /\ condition["Newton"] = "fourUnseeded"
      /\ doing["Benjamin"] = "await")
=============================================================================
