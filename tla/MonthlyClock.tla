---------------------------- MODULE MonthlyClock ----------------------------
(***************************************************************************)
(* The calendar of the monthly jobs.  A month has two parts: the first       *)
(* hours of its first day, until the jobs of 04:00 and 04:30 are due, and    *)
(* the rest.  Time 2m is the first part of month m, 2m + 1 the second, UTC.  *)
(***************************************************************************)
EXTENDS Integers

CONSTANTS Instances,   \* server instances; each runs every job
          FirstMonth,  \* the month in which the tables are migrated
          LastMonth    \* bound on time

ASSUME ClockConstants == FirstMonth \in Nat /\ LastMonth \in Nat /\ FirstMonth <= LastMonth

VARIABLE clock

Times == 0..(2 * LastMonth + 1)

Month(t) == t \div 2

(* 00:00 on the first day of month m, where its partition begins.           *)
Opening(m) == 2 * m

(* What setUTCMonth(getUTCMonth() - r) makes of the time of a job in month n: *)
(* the same day and hour of month n - r.                                    *)
Cutoff(n, r) == 2 * (n - r) + 1

(* The jobs of a month come due when its second part begins.                *)
JobTime(t) == t % 2 = 1
=============================================================================
