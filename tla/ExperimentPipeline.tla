------------------------- MODULE ExperimentPipeline -------------------------
(***************************************************************************)
(* src/run-experiment.sh, the batch job that runs mpbw under three memory  *)
(* policies and renames mpbw.csv after each, together with the program it  *)
(* runs (Mpbw) and the system that may end either.  The script has no      *)
(* "set -e": a step that fails is followed by the next.                    *)
(*                                                                         *)
(* A job works in the directory it was submitted from ("-D ."), where      *)
(* earlier jobs left their files.                                          *)
(***************************************************************************)
EXTENDS Mpbw

CONSTANTS
  Policies,  \* Local, Remote, _Inter: the arguments, in the order of the script
  MaxJobs    \* a bound of the run: how often the job is submitted

ASSUME PoliciesAssumption ==
  /\ Policies \in Seq(STRING) /\ Policies # <<>>
  /\ \A m, n \in 1..Len(Policies) : Policies[m] = Policies[n] => m = n
ASSUME MaxJobsAssumption == MaxJobs \in Nat \ {0}

Policy == {Policies[n] : n \in 1..Len(Policies)}

VARIABLES
  job,       \* how often the job was submitted
  script,    \* where it stands: "launch", "running", "mv", "ended"
  line,      \* the policy it is at
  mpbwCsv,   \* mpbw.csv
  csv,       \* of each policy, the file named after it
  faults     \* history: [job, line, kind] of what went wrong

files == <<mpbwCsv, csv>>
pipelineVars == <<job, script, line, files, faults>>

\* A file: who wrote it, and the rows that reached the disk.
Absent == [policy |-> "", job |-> 0, rows |-> <<>>]
Written(r) == [policy |-> Policies[line], job |-> job, rows |-> r]

\* What a row says of its configuration.
Labels(r) == [n \in DOMAIN r |-> [threads |-> r[n].threads, prefetch |-> r[n].prefetch]]

-----------------------------------------------------------------------------
\* A process of mpbw as main() finds it, and as nothing more is known of one
\* that has ended.
NoProcess ==
  /\ pc' = "start"
  /\ threads' = NextMeasured(1)
  /\ prefetch' = FALSE
  /\ attempt' = 0
  /\ spawned' = 0
  /\ phase' = [t \in Thread |-> "end"]
  /\ at' = [t \in Thread |-> 0]
  /\ loaded' = [t \in Thread |-> 0]
  /\ g_sum' = 0
  /\ elapsed' = 0 /\ best' = 0
  /\ seen' = {}
  /\ rows' = <<>>

PipelineInit ==
  /\ Init
  /\ job = 1
  /\ script = "launch"
  /\ line = 1
  /\ mpbwCsv = Absent
  /\ csv = [p \in Policy |-> Absent]
  /\ faults = {}

Fault(kind) == faults' = faults \union {[job |-> job, line |-> line, kind |-> kind]}

\* Plausible bug: the rows reach the file one by one.
OnDiskUnbuffered(r) == Labels(r)

\* What is in the file while the program runs: its rows are fewer bytes than
\* the stream's buffer holds.
OnDisk(r) == <<>>

\* numactl runs mpbw, whose ofstream creates mpbw.csv or empties it.
Launch ==
  /\ script = "launch"
  /\ script' = "running"
  /\ mpbwCsv' = Written(OnDisk(rows))
  /\ UNCHANGED <<vars, job, line, csv, faults>>

\* numactl cannot set the policy, or finds no mpbw.
LaunchFails ==
  /\ script = "launch"
  /\ script' = "mv"
  /\ Fault("launch")
  /\ UNCHANGED <<vars, job, line, files>>

\* The program works.
Work ==
  /\ script = "running"
  /\ Measuring
  /\ mpbwCsv' = Written(OnDisk(rows'))
  /\ UNCHANGED <<job, script, line, csv, faults>>

\* output.close() writes what the buffer holds.
Close ==
  /\ script = "running"
  /\ CloseOutput
  /\ mpbwCsv' = Written(Labels(rows))
  /\ UNCHANGED <<job, script, line, csv, faults>>

Exit ==
  /\ script = "running"
  /\ pc = "done"
  /\ script' = "mv"
  /\ NoProcess
  /\ UNCHANGED <<job, line, files, faults>>

\* The program dies on the way: no memory of the policy's for the vector, or
\* no thread to be had.  Nothing flushes the stream.
Dies ==
  /\ script = "running"
  /\ pc # "done"
  /\ script' = "mv"
  /\ NoProcess
  /\ Fault("died")
  /\ UNCHANGED <<job, line, files>>

\* Plausible bug: every file gets the first policy's name.
TargetFirst == Policies[1]

\* The name that mv gives mpbw.csv.
Target == Policies[line]

\* mv and, unless it was the last line, sleep.
Mv ==
  /\ script = "mv"
  /\ IF mpbwCsv = Absent
     THEN UNCHANGED files
     ELSE csv' = [csv EXCEPT ![Target] = mpbwCsv] /\ mpbwCsv' = Absent
  /\ IF line < Len(Policies)
     THEN script' = "launch" /\ line' = line + 1
     ELSE script' = "ended" /\ line' = line
  /\ UNCHANGED <<vars, job, faults>>

\* The job's fifteen minutes are over, or it is cancelled.
Killed ==
  /\ script # "ended"
  /\ script' = "ended"
  /\ NoProcess
  /\ Fault("killed")
  /\ UNCHANGED <<job, line, files>>

Submit ==
  /\ script = "ended"
  /\ job < MaxJobs
  /\ job' = job + 1
  /\ script' = "launch"
  /\ line' = 1
  /\ UNCHANGED <<vars, files, faults>>

JobStep == Launch \/ Work \/ Close \/ Exit \/ Mv

PipelineNext == JobStep \/ LaunchFails \/ Dies \/ Killed \/ Submit

PipelineSpec == PipelineInit /\ [][PipelineNext]_<<vars, pipelineVars>>

\* The node runs the job as long as it lets it live.
FairPipelineSpec == PipelineSpec /\ WF_<<vars, pipelineVars>>(JobStep)

-----------------------------------------------------------------------------
HasRows(file) == file.rows # <<>>

\* A file named after a policy holds no other policy's rows, whatever launches
\* fail, programs die and jobs are killed, with one exception (lines 27-28): a
\* killed job left mpbw.csv behind, and the first launch of a later job failed
\* without opening it.  Every later line finds mpbw.csv moved away.
NamesTellThePolicy ==
  \A p \in Policy :
    HasRows(csv[p]) /\ csv[p].policy # p =>
      /\ p = Policies[1]
      /\ \E f, g \in faults :
           /\ f.kind = "killed" /\ g.kind = "launch" /\ g.line = 1
           /\ f.job < g.job

\* No file is cut off in the middle: one with rows has every row of mpbw.csv,
\* in order, though the program may die at any row and its file is moved all
\* the same.
RowsAllOrNone ==
  \A p \in Policy : HasRows(csv[p]) => InOrder(csv[p].rows)

\* A job in which nothing goes wrong makes all three files anew, whatever the
\* jobs before it left in the directory.
CleanJobRenewsAll ==
  script = "ended" /\ (\A f \in faults : f.job # job) =>
    \A p \in Policy : csv[p].policy = p /\ csv[p].job = job /\ HasRows(csv[p])

\* A job that is submitted ends: in particular mpbw joins its threads.
JobsEnd == \A n \in 1..MaxJobs : job = n ~> job = n /\ script = "ended"
=============================================================================
