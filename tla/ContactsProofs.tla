---------------------------- MODULE ContactsProofs ----------------------------
(***************************************************************************)
(* Proofs about Contacts: a contact has one row and a stop is remembered,   *)
(* for any number of jobs, ticks, rows and lines.                            *)
(*                                                                         *)
(* The heart is BlindInv: a job that is about to create a row knows every row  *)
(* with its contact, but for those created since it looked.                   *)
(***************************************************************************)
EXTENDS Contacts, TLAPS

IsRow(o) ==
    o \in [stored : BOOLEAN, keys : {o.keys}, status : {"open", "opted_out", "converted"},
           aged : BOOLEAN]

IsJob(o) ==
    o = [kind |-> o.kind, batch |-> o.batch, stage |-> o.stage, pos |-> o.pos,
         claimed |-> o.claimed]

(* Rows and jobs are records, and the row numbers that were given out are used.  *)
ShapeInv ==
    /\ book = [x \in Rows |-> book[x]] /\ \A x \in Rows : IsRow(book[x])
    /\ job = [j \in Jobs |-> job[j]] /\ \A j \in Jobs : IsJob(job[j])
    /\ maker = [x \in Rows |-> maker[x]]
    /\ blind = [j \in Jobs |-> blind[j]]
    /\ condemned \in [Sweeps -> SUBSET Rows]
    /\ altered = [t \in Sweeps |-> altered[t]]
    /\ made \in 0 .. MaxRows
    /\ \A x \in Rows : x > made => ~book[x].stored

(* What a job that looked does not know was created since. *)
BlindInv ==
    \A j \in Jobs : job[j].stage = "creating" /\ job[j].kind \in Deduping =>
        \A x \in Rows :
            book[x].stored /\ book[x].keys \cap Entry(j) # {} => x \in blind[j]

(* A snapshot is right about the rows that did not change since.               *)
SweepInv ==
    \A t \in Sweeps : \A x \in condemned[t] :
        /\ x <= made
        /\ x \notin altered[t] => book[x].status = "converted" /\ book[x].aged

(* The stopped rows that count. *)
SilencedInv ==
    \A x \in silenced : x \in Rows /\ book[x].stored /\ book[x].status = "opted_out"

BookInv == ShapeInv /\ BlindInv /\ OneRowPerContact /\ SweepInv /\ SilencedInv

-------------------------------------------------------------------------------

(* The book is empty, and only a form is about to create a row.                *)
LEMMA BookInitially == BookInit => BookInv
<1> SUFFICES ASSUME BookInit
             PROVE  BookInv
  OBVIOUS
<1>1. \A j \in Jobs : IsJob(job[j]) /\ (job[j].stage = "creating" => job[j].kind = "form")
  <2> SUFFICES ASSUME NEW j \in Jobs
               PROVE  IsJob(job[j]) /\ (job[j].stage = "creating" => job[j].kind = "form")
    OBVIOUS
  <2>1. PICK k \in JobKinds : job[j] \in JobsOf(k)
    BY DEF BookInit
  <2>2. job[j].stage = IF job[j].kind = "form" THEN "creating" ELSE "looking"
    BY DEF BookInit
  <2> QED BY <2>1, <2>2 DEF JobsOf, IsJob
<1>2. ShapeInv
  BY <1>1, ContactsAssumption DEF BookInit, ShapeInv, IsRow, NoRow
<1>3. BlindInv
  BY <1>1 DEF BlindInv, Deduping
<1>4. OneRowPerContact /\ SweepInv /\ SilencedInv
  BY DEF BookInit, OneRowPerContact, SweepInv, SilencedInv, NoRow
<1> QED BY <1>2, <1>3, <1>4 DEF BookInv

(* After its row a job looks for the next line's, or is done. *)
LEMMA AdvanceGoesOn ==
    ASSUME NEW o, IsJob(o)
    PROVE  IsJob(Advance(o)) /\ Advance(o).stage # "creating"
<1> DEFINE moved == [o EXCEPT !.pos = @ + 1]
           claims == [moved EXCEPT !.claimed = @ \cup o.batch[o.pos]]
           stage == IF o.pos = Len(o.batch) THEN "done" ELSE "looking"
<1>1. IsJob(moved)
  BY DEF IsJob
<1>2. IsJob(claims)
  <2> HIDE DEF moved
  <2> QED BY <1>1 DEF IsJob
<1>3. IsJob([claims EXCEPT !.stage = stage]) /\ [claims EXCEPT !.stage = stage].stage = stage
  <2> HIDE DEF claims, stage
  <2> QED BY <1>2 DEF IsJob
<1>4. Advance(o) = [claims EXCEPT !.stage = stage]
  BY DEF Advance
<1> QED BY <1>3, <1>4

(* A step that leaves the rows alone. *)
LEMMA RowsUntouched ==
    ASSUME BookInv,
           UNCHANGED <<book, made, maker, raced, silenced>>,
           ShapeInv', BlindInv', SweepInv'
    PROVE  BookInv'
BY DEF BookInv, OneRowPerContact, SilencedInv

(* A job looks: it goes on to create a row only if it found none.              *)
LEMMA LookKeeps ==
    ASSUME BookInv, NEW j \in Jobs, Look(j)
    PROVE  BookInv'
<1> DEFINE known == \E x \in Rows : Matches(x, Entry(j))
           o == job[j]
<1> USE DEF BookInv, ShapeInv
<1>1. /\ UNCHANGED <<book, made, condemned, maker, raced, silenced, altered>>
      /\ o.stage = "looking"
      /\ blind' = [blind EXCEPT ![j] = {}]
  BY DEF Look
<1>2. PICK p : /\ job' = [job EXCEPT ![j] = p]
               /\ \/ p = Advance(o)
                  \/ p = [o EXCEPT !.stage = "found"]
                  \/ p = [o EXCEPT !.stage = "creating"] /\ ~known
  <2> DEFINE p == CASE o.kind = "import" /\ (DupeInBatch(j) \/ known) -> Advance(o)
                    [] known -> [o EXCEPT !.stage = "found"]
                    [] OTHER -> [o EXCEPT !.stage = "creating"]
  <2>1. job' = [job EXCEPT ![j] = p]
    BY DEF Look
  <2>2. \/ p = Advance(o)
        \/ p = [o EXCEPT !.stage = "found"]
        \/ p = [o EXCEPT !.stage = "creating"] /\ ~known
    OBVIOUS
  <2> QED BY <2>1, <2>2
<1>3. /\ IsJob(p)
      /\ p.stage = "creating" => p.batch = o.batch /\ p.pos = o.pos /\ ~known
  <2>1. IsJob(o)
    OBVIOUS
  <2> QED BY <1>2, <2>1 DEF IsJob, Advance
<1>4. job'[j] = p /\ \A q \in Jobs \ {j} : job'[q] = job[q]
  BY <1>2
<1>5. ShapeInv'
  BY <1>1, <1>2, <1>3, <1>4
<1>6. BlindInv'
  <2> SUFFICES ASSUME NEW q \in Jobs, job'[q].stage = "creating", job'[q].kind \in Deduping,
                      NEW x \in Rows, book[x].stored,
                      book[x].keys \cap Entry(q)' # {}
               PROVE  x \in blind'[q]
    BY <1>1 DEF BlindInv
  <2>1. CASE q = j
    BY <1>3, <1>4, <2>1 DEF Matches, Entry
  <2>2. CASE q # j
    BY <1>1, <1>4, <2>2 DEF BlindInv, Entry
  <2> QED BY <2>1, <2>2
<1> QED BY <1>1, <1>5, <1>6, RowsUntouched DEF SweepInv

(* A job ends, or fails, without having created a row. *)
LEMMA JobEndKeeps ==
    ASSUME BookInv, NEW j \in Jobs, NEW s, s # "creating",
           job' = [job EXCEPT ![j].stage = s],
           UNCHANGED <<book, made, condemned, maker, blind, raced, silenced, altered>>
    PROVE  BookInv'
<1> USE DEF BookInv, ShapeInv
<1>1. /\ job'[j].stage = s /\ IsJob(job'[j])
      /\ \A q \in Jobs \ {j} : job'[q] = job[q]
  BY DEF IsJob
<1>2. ShapeInv'
  BY <1>1
<1>3. BlindInv'
  BY <1>1 DEF BlindInv, Entry
<1> QED BY <1>2, <1>3, RowsUntouched DEF SweepInv

(* The new row shares a contact only with rows its job did not see.             *)
LEMMA CreateKeeps ==
    ASSUME BookInv, NEW j \in Jobs, Create(j)
    PROVE  BookInv'
<1> USE DEF BookInv, ShapeInv, Rows
<1> DEFINE n == made + 1
           o == job[j]
           row == [NoRow EXCEPT !.stored = TRUE, !.keys = Entry(j)]
<1>1. /\ UNCHANGED <<condemned, silenced, altered>>
      /\ o.stage = "creating" /\ made < MaxRows /\ made' = n
      /\ book' = [book EXCEPT ![n] = row]
      /\ job' = [job EXCEPT ![j] = Advance(@)]
      /\ maker' = [maker EXCEPT ![n] = o.kind]
      /\ raced' = raced \cup {{n, x} : x \in blind[j]}
  BY DEF Create
<1>2. \A q \in Jobs : blind'[q] = IF job[q].stage = "creating" THEN blind[q] \cup {n}
                                  ELSE blind[q]
  BY DEF Create
<1>3. n \in Rows /\ made \in Nat /\ MaxRows \in Nat
  BY <1>1, ContactsAssumption
<1>4. row.stored /\ row.keys = Entry(j) /\ IsRow(row)
  <2> HIDE DEF BookInv, ShapeInv, Rows
  <2> DEFINE filed == [NoRow EXCEPT !.stored = TRUE]
  <2>1. IsRow(filed) /\ filed.stored
    BY DEF NoRow, IsRow
  <2>2. row = [filed EXCEPT !.keys = Entry(j)]
    OBVIOUS
  <2> HIDE DEF filed, row
  <2> QED BY <2>1, <2>2 DEF IsRow
<1>5. /\ job'[j] = Advance(o) /\ IsJob(Advance(o)) /\ Advance(o).stage # "creating"
      /\ \A q \in Jobs \ {j} : job'[q] = job[q]
  BY <1>1, AdvanceGoesOn
<1>6. /\ book'[n] = row /\ \A x \in Rows \ {n} : book'[x] = book[x]
      /\ maker'[n] = o.kind /\ \A x \in Rows \ {n} : maker'[x] = maker[x]
  BY <1>1, <1>3
<1> HIDE DEF row
<1>7. ShapeInv'
  <2>1. book' = [x \in Rows |-> book'[x]] /\ \A x \in Rows : IsRow(book'[x])
    BY <1>1, <1>4, <1>6
  <2>2. job' = [q \in Jobs |-> job'[q]] /\ \A q \in Jobs : IsJob(job'[q])
    BY <1>1, <1>5
  <2>3. maker' = [x \in Rows |-> maker'[x]] /\ blind' = [q \in Jobs |-> blind'[q]]
    BY <1>1 DEF Create
  <2>4. made' \in 0 .. MaxRows /\ \A x \in Rows : x > made' => ~book'[x].stored
    BY <1>1, <1>3, <1>6
  <2> QED BY <1>1, <2>1, <2>2, <2>3, <2>4
<1>8. BlindInv'
  <2> SUFFICES ASSUME NEW q \in Jobs, job'[q].stage = "creating", job'[q].kind \in Deduping,
                      NEW x \in Rows, book'[x].stored, book'[x].keys \cap Entry(q)' # {}
               PROVE  x \in blind'[q]
    BY DEF BlindInv
  <2>1. q # j /\ job'[q] = job[q]
    BY <1>5
  <2>2. CASE x = n
    BY <1>2, <2>1, <2>2
  <2>3. CASE x # n
    BY <1>2, <1>6, <2>1, <2>3 DEF BlindInv, Entry
  <2> QED BY <2>2, <2>3
<1>9. ASSUME o.kind \in Deduping, NEW x \in Rows \ {n}, book[x].stored,
             book[x].keys \cap Entry(j) # {}
      PROVE  {n, x} \in raced'
  <2>1. x \in blind[j]
    BY <1>1, <1>9 DEF BlindInv
  <2> QED BY <1>1, <2>1
<1>10. OneRowPerContact'
  <2> SUFFICES ASSUME NEW x \in Rows, NEW y \in Rows, x # y,
                      book'[x].stored, book'[y].stored,
                      maker'[x] \in Deduping, maker'[y] \in Deduping,
                      book'[x].keys \cap book'[y].keys # {}
               PROVE  {x, y} \in raced'
    BY DEF OneRowPerContact
  <2>1. CASE x = n
    BY <1>4, <1>6, <1>9, <2>1
  <2>2. CASE y = n
    <3>1. {n, x} \in raced'
      BY <1>4, <1>6, <1>9, <2>2
    <3>2. {n, x} = {x, y}
      BY <2>2
    <3> QED BY <3>1, <3>2
  <2>3. CASE x # n /\ y # n
    BY <1>1, <1>6, <2>3 DEF OneRowPerContact
  <2> QED BY <2>1, <2>2, <2>3
<1>11. SweepInv'
  <2>1. ASSUME NEW t \in Sweeps, NEW x \in condemned[t]
        PROVE  x \in Rows \ {n} /\ x <= n
    <3>1. x \in Rows /\ x <= made
      BY <2>1 DEF SweepInv
    <3> QED BY <1>3, <3>1
  <2> HIDE DEF ShapeInv, Rows
  <2>2. ASSUME NEW t \in Sweeps, NEW x \in condemned[t]
        PROVE  /\ x <= n
               /\ x \notin altered[t] => book'[x].status = "converted" /\ book'[x].aged
    BY <1>6, <2>1 DEF SweepInv
  <2> QED BY <1>1, <2>2 DEF SweepInv
<1>12. SilencedInv'
  <2>1. ASSUME NEW x \in silenced
        PROVE  x \in Rows \ {n}
    <3>1. x \in Rows /\ ~(x > made)
      BY <2>1 DEF SilencedInv
    <3> QED BY <1>3, <3>1
  <2> QED BY <1>1, <1>6, <2>1 DEF SilencedInv
<1> QED BY <1>7, <1>8, <1>10, <1>11, <1>12

(* A stored row changes its status or its dates, or goes; every snapshot is told   *)
(* of it, unless the row only grew older.                                      *)
LEMMA RowKeeps ==
    ASSUME BookInv, NEW x \in Rows, NEW row,
           book[x].stored, IsRow(row), row.keys = book[x].keys,
           book' = [book EXCEPT ![x] = row],
           UNCHANGED <<made, job, condemned, maker, blind, raced>>,
           \/ Change(x)
           \/ UNCHANGED altered /\ row.aged /\ row.status = book[x].status,
           silenced' \subseteq silenced \cup {x},
           x \in silenced' => row.stored /\ row.status = "opted_out"
    PROVE  BookInv'
<1> USE DEF BookInv, ShapeInv
<1>1. book'[x] = row /\ \A y \in Rows \ {x} : book'[y] = book[y]
  OBVIOUS
<1>2. /\ \A t \in Sweeps : altered[t] \subseteq altered'[t]
      /\ altered' = [t \in Sweeps |-> altered'[t]]
      /\ \/ \A t \in Sweeps : x \in altered'[t]
         \/ row.aged /\ row.status = book[x].status
  BY DEF Change
<1>3. ShapeInv'
  BY <1>1, <1>2
<1>4. BlindInv'
  BY <1>1 DEF BlindInv, Entry
<1>5. OneRowPerContact'
  BY <1>1 DEF OneRowPerContact
<1>6. SweepInv'
  <2> SUFFICES ASSUME NEW t \in Sweeps, NEW y \in condemned[t]
               PROVE  /\ y <= made
                      /\ y \notin altered'[t] => book'[y].status = "converted" /\ book'[y].aged
    BY DEF SweepInv
  <2>1. /\ y \in Rows /\ y <= made
        /\ y \notin altered[t] => book[y].status = "converted" /\ book[y].aged
    BY DEF SweepInv
  <2>2. CASE y = x
    BY <1>1, <1>2, <2>1, <2>2
  <2>3. CASE y # x
    BY <1>1, <1>2, <2>1, <2>3
  <2> QED BY <2>2, <2>3
<1>7. SilencedInv'
  BY <1>1 DEF SilencedInv
<1> QED BY <1>3, <1>4, <1>5, <1>6, <1>7

(* What is known of a row that is not on any snapshot, or no longer. *)
LEMMA PurgeKeeps ==
    ASSUME BookInv, NEW t \in Sweeps, NEW x, Purge(t, x)
    PROVE  BookInv'
<1> USE DEF BookInv, ShapeInv
<1>1. /\ x \in condemned[t] /\ x \in Rows
      /\ condemned' = [condemned EXCEPT ![t] = @ \ {x}]
      /\ book' = [book EXCEPT ![x].stored = FALSE]
      /\ silenced' = IF x \in altered[t] THEN silenced \ {x} ELSE silenced
      /\ UNCHANGED <<made, job, maker, blind, raced, altered>>
  BY DEF Purge
<1>2. /\ ~book'[x].stored /\ book'[x].status = book[x].status
      /\ book'[x].aged = book[x].aged /\ book'[x].keys = book[x].keys
      /\ IsRow(book'[x])
      /\ \A y \in Rows \ {x} : book'[y] = book[y]
  <2>1. IsRow(book[x])
    BY <1>1
  <2> QED BY <1>1, <2>1 DEF IsRow
<1>3. ShapeInv'
  BY <1>1, <1>2
<1>4. BlindInv'
  BY <1>1, <1>2 DEF BlindInv, Entry
<1>5. OneRowPerContact'
  BY <1>1, <1>2 DEF OneRowPerContact
<1>6. SweepInv'
  <2>1. \A u \in Sweeps : condemned'[u] \subseteq condemned[u] /\ condemned[u] \subseteq Rows
    BY <1>1
  <2>2. \A y \in Rows : book'[y].status = book[y].status /\ book'[y].aged = book[y].aged
    BY <1>1, <1>2
  <2> HIDE DEF BookInv, ShapeInv
  <2>3. SweepInv
    BY DEF BookInv
  <2> QED BY <1>1, <2>1, <2>2, <2>3 DEF SweepInv
<1>7. x \notin silenced'
  BY <1>1 DEF SweepInv, SilencedInv
<1>8. SilencedInv'
  BY <1>1, <1>2, <1>7 DEF SilencedInv
<1> QED BY <1>3, <1>4, <1>5, <1>6, <1>8

(* The rest of a purge leaves the rows alone. *)
LEMMA SweepKeeps ==
    ASSUME BookInv, NEW t \in Sweeps,
           StartSweep(t) \/ \E x \in Rows : PurgeThrows(t, x)
    PROVE  BookInv'
<1> USE DEF BookInv, ShapeInv
<1>1. UNCHANGED <<book, made, job, maker, blind, raced, silenced>>
  BY DEF StartSweep, PurgeThrows
<1>2. ShapeInv'
  BY <1>1 DEF StartSweep, PurgeThrows
<1>3. BlindInv'
  BY <1>1 DEF BlindInv, Entry
<1>4. SweepInv'
  <2>1. CASE StartSweep(t)
    <3>1. /\ condemned' = [condemned EXCEPT ![t] =
                {x \in Rows : book[x].stored /\ book[x].status = "converted" /\ book[x].aged}]
          /\ altered' = [altered EXCEPT ![t] = {}]
      BY <2>1 DEF StartSweep, IsPastRetention
    <3>2. \A x \in Rows : book[x].stored => x <= made
      BY ContactsAssumption DEF Rows
    <3> QED BY <1>1, <3>1, <3>2 DEF SweepInv
  <2>2. ASSUME NEW x \in Rows, PurgeThrows(t, x)
        PROVE  SweepInv'
    <3>1. condemned' = [condemned EXCEPT ![t] = @ \ {x}] /\ UNCHANGED altered
      BY <2>2 DEF PurgeThrows
    <3> QED BY <1>1, <3>1 DEF SweepInv
  <2> QED BY <2>1, <2>2
<1> QED BY <1>1, <1>2, <1>3, <1>4, RowsUntouched

-------------------------------------------------------------------------------

(* The inductive invariant: what jobs and snapshots do not know, changed since     *)
(* they looked.                                                               *)
THEOREM BookIsConsistent == BookSpec => []BookInv
<1>1. ASSUME BookInv, [BookNext]_bookVars
      PROVE  BookInv'
  <2> USE <1>1
  <2>1. CASE UNCHANGED bookVars
    BY <2>1 DEF bookVars, BookInv, ShapeInv, BlindInv, OneRowPerContact, SweepInv,
                SilencedInv, Entry
  <2>2. ASSUME NEW j \in Jobs, JobStep(j)
        PROVE  BookInv'
    <3>1. CASE UpdateFound(j)
      BY <3>1, JobEndKeeps DEF UpdateFound
    <3>2. CASE JobThrows(j)
      BY <3>2, JobEndKeeps DEF JobThrows
    <3> QED BY <2>2, <3>1, <3>2, LookKeeps, CreateKeeps DEF JobStep
  <2>3. ASSUME NEW x \in Rows, RowStep(x)
        PROVE  BookInv'
    <3>1. book[x].stored /\ IsRow(book[x])
      BY <2>3 DEF RowStep, Answer, Convert, Contact, Age, Erase, BookInv, ShapeInv
    <3>2. ASSUME NEW status \in {"open", "opted_out"}, Answer(x, status)
          PROVE  BookInv'
      <4> DEFINE row == [book[x] EXCEPT !.status = status]
      <4>1. IsRow(row) /\ row.keys = book[x].keys /\ row.stored /\ row.status = status
        BY <3>1 DEF IsRow
      <4>2. /\ silenced' \subseteq silenced \cup {x}
            /\ x \in silenced' => status = "opted_out"
        BY <3>2 DEF Answer
      <4>3. /\ book' = [book EXCEPT ![x] = row]
            /\ UNCHANGED <<made, job, condemned, maker, blind, raced>> /\ Change(x)
        BY <3>2 DEF Answer
      <4> HIDE DEF row
      <4> QED BY <3>1, <4>1, <4>2, <4>3, RowKeeps
    <3>3. CASE Convert(x)
      <4> DEFINE row == [book[x] EXCEPT !.status = "converted"]
      <4>1. IsRow(row) /\ row.keys = book[x].keys
        BY <3>1 DEF IsRow
      <4>2. /\ book' = [book EXCEPT ![x] = row]
            /\ silenced' = silenced \ {x}
            /\ UNCHANGED <<made, job, condemned, maker, blind, raced>> /\ Change(x)
        BY <3>3 DEF Convert
      <4> HIDE DEF row
      <4> QED BY <3>1, <4>1, <4>2, RowKeeps
    <3>4. CASE Contact(x)
      <4> DEFINE row == [book[x] EXCEPT !.aged = FALSE]
      <4>1. IsRow(row) /\ row.keys = book[x].keys
        BY <3>1 DEF IsRow
      <4>2. /\ book' = [book EXCEPT ![x] = row]
            /\ UNCHANGED <<made, job, condemned, maker, blind, raced, silenced>> /\ Change(x)
            /\ book[x].status # "opted_out"
        BY <3>4 DEF Contact
      <4>3. x \notin silenced
        BY <4>2 DEF BookInv, SilencedInv
      <4> HIDE DEF row
      <4> QED BY <3>1, <4>1, <4>2, <4>3, RowKeeps
    <3>5. CASE Age(x)
      <4> DEFINE row == [book[x] EXCEPT !.aged = TRUE]
      <4>1. /\ IsRow(row) /\ row.keys = book[x].keys /\ row.aged
            /\ row.status = book[x].status /\ row.stored
        BY <3>1 DEF IsRow
      <4>2. /\ book' = [book EXCEPT ![x] = row]
            /\ UNCHANGED <<made, job, condemned, maker, blind, raced, silenced, altered>>
        BY <3>5 DEF Age
      <4>3. x \in silenced => book[x].status = "opted_out"
        BY DEF BookInv, SilencedInv
      <4> HIDE DEF row
      <4> QED BY <3>1, <4>1, <4>2, <4>3, RowKeeps
    <3>6. CASE Erase(x)
      <4> DEFINE row == [book[x] EXCEPT !.stored = FALSE]
      <4>1. IsRow(row) /\ row.keys = book[x].keys
        BY <3>1 DEF IsRow
      <4>2. /\ book' = [book EXCEPT ![x] = row]
            /\ silenced' = silenced \ {x}
            /\ UNCHANGED <<made, job, condemned, maker, blind, raced>> /\ Change(x)
        BY <3>6 DEF Erase
      <4> HIDE DEF row
      <4> QED BY <3>1, <4>1, <4>2, RowKeeps
    <3> QED BY <2>3, <3>2, <3>3, <3>4, <3>5, <3>6 DEF RowStep
  <2>4. ASSUME NEW t \in Sweeps, SweepStep(t)
        PROVE  BookInv'
    BY <2>4, PurgeKeeps, SweepKeeps DEF SweepStep
  <2> QED BY <2>1, <2>2, <2>3, <2>4 DEF BookNext
<1> QED BY <1>1, BookInitially, PTL DEF BookSpec

(* OneRowPerContact: only a race, the form or the chat makes a second row of a     *)
(* contact; an import that is repeated does not (leadImport.ts).                *)
THEOREM ContactsHaveOneRow == BookSpec => []OneRowPerContact
BY BookIsConsistent, PTL DEF BookInv

(* A job that creates a row is the one that moves. *)
LEMMA CreatorMoves ==
    ASSUME BookInv, NEW j \in Jobs, BookNext, made' # made, job'[j] # job[j]
    PROVE  Create(j)
<1>1. \A q \in Jobs : ~Look(q) /\ ~UpdateFound(q) /\ ~JobThrows(q)
  BY DEF Look, UpdateFound, JobThrows
<1>2. \A x \in Rows : ~RowStep(x)
  BY DEF RowStep, Answer, Convert, Contact, Age, Erase
<1>3. \A t \in Sweeps : ~SweepStep(t)
  BY DEF SweepStep, StartSweep, Purge, PurgeThrows
<1>4. PICK q \in Jobs : Create(q)
  BY <1>1, <1>2, <1>3 DEF BookNext, JobStep
<1>5. q = j
  BY <1>4 DEF Create, BookInv, ShapeInv
<1> QED BY <1>4, <1>5

(* StopIsRemembered: no job that looks first creates a row for someone who said     *)
(* stop, but for one whose row is younger than its look.                       *)
THEOREM StopsAreRemembered == BookSpec => StopIsRemembered
<1>1. ASSUME BookInv, [BookNext]_bookVars
      PROVE  [\A j \in Jobs, x \in silenced :
                 /\ job[j].kind \in Deduping /\ made' # made /\ job'[j] # job[j]
                 /\ book[x].keys \cap Entry(j) # {}
                 => x \in blind[j]]_bookVars
  <2> SUFFICES ASSUME BookNext, NEW j \in Jobs, NEW x \in silenced,
                      job[j].kind \in Deduping, made' # made, job'[j] # job[j],
                      book[x].keys \cap Entry(j) # {}
               PROVE  x \in blind[j]
    BY <1>1
  <2>1. Create(j)
    BY <1>1, CreatorMoves
  <2>2. x \in Rows /\ book[x].stored
    BY <1>1 DEF BookInv, SilencedInv
  <2> QED BY <1>1, <2>1, <2>2 DEF Create, BookInv, BlindInv
<1> QED BY <1>1, BookIsConsistent, PTL DEF BookSpec, StopIsRemembered

-------------------------------------------------------------------------------
(* Type correctness.  A request that is not over is at a line its file has.     *)

Batches(k) ==
    CASE k = "import" -> UNION {[1 .. n -> Entries] : n \in 1 .. MaxLines}
      [] k = "call" -> [{1} -> {{p} : p \in Phones}]
      [] OTHER -> [{1} -> Entries]

JobIsSound(o) ==
    /\ o = [kind |-> o.kind, batch |-> o.batch, stage |-> o.stage, pos |-> o.pos,
            claimed |-> o.claimed]
    /\ o.kind \in JobKinds
    /\ o.batch \in Batches(o.kind)
    /\ o.stage \in {"looking", "creating", "found", "done", "failed"}
    /\ o.pos \in 1 .. MaxLines + 1
    /\ o.claimed \subseteq Keys
    /\ o.stage \in {"looking", "creating", "found"} => o.pos <= Len(o.batch)

JobsInv == \A j \in Jobs : JobIsSound(job[j])

BookTypeInv == BookTypeOK /\ JobsInv

(* A file has a line at least, and every line says something of a person.       *)
LEMMA BatchLines ==
    ASSUME NEW k \in JobKinds, NEW b \in Batches(k)
    PROVE  /\ Len(b) \in 1 .. MaxLines
           /\ \A i \in 1 .. Len(b) : b[i] \in Entries
<1>1. PICK n \in 1 .. MaxLines : b \in [1 .. n -> Entries]
  <2>1. CASE k = "import"
    BY <2>1 DEF Batches
  <2>2. CASE k = "call"
    <3>1. b \in [{1} -> {{p} : p \in Phones}]
      BY <2>2 DEF Batches
    <3>2. {{p} : p \in Phones} \subseteq Entries
      BY DEF Entries, Keys
    <3>3. b \in [1 .. 1 -> Entries]
      BY <3>1, <3>2
    <3> QED BY <3>3, ContactsAssumption DEF ContactsAssumption
  <2>3. CASE k \notin {"import", "call"}
    <3>1. b \in [1 .. 1 -> Entries]
      BY <2>3 DEF Batches
    <3> QED BY <3>1, ContactsAssumption DEF ContactsAssumption
  <2> QED BY <2>1, <2>2, <2>3
<1>2. b \in Seq(Entries) /\ Len(b) = n
  BY <1>1
<1> QED BY <1>1, <1>2

LEMMA SoundJobType ==
    ASSUME NEW o
    PROVE  /\ JobIsSound(o) => o \in UNION {JobsOf(k) : k \in JobKinds}
           /\ /\ o \in UNION {JobsOf(k) : k \in JobKinds}
              /\ o.pos = 1
              => JobIsSound(o)
<1>1. \A k \in JobKinds : JobsOf(k) =
        [kind : {k}, batch : Batches(k),
         stage : {"looking", "creating", "found", "done", "failed"},
         pos : 1 .. MaxLines + 1, claimed : SUBSET Keys]
  BY DEF JobsOf, Batches
<1>2. ASSUME JobIsSound(o)
      PROVE  o \in UNION {JobsOf(k) : k \in JobKinds}
  <2>1. o \in JobsOf(o.kind)
    BY <1>1, <1>2 DEF JobIsSound
  <2> QED BY <1>2, <2>1 DEF JobIsSound
<1>3. ASSUME NEW k \in JobKinds, o \in JobsOf(k), o.pos = 1
      PROVE  JobIsSound(o)
  <2>1. /\ o = [kind |-> o.kind, batch |-> o.batch, stage |-> o.stage, pos |-> o.pos,
                claimed |-> o.claimed]
        /\ o.kind = k /\ o.batch \in Batches(k)
        /\ o.stage \in {"looking", "creating", "found", "done", "failed"}
        /\ o.pos \in 1 .. MaxLines + 1 /\ o.claimed \subseteq Keys
    <3>1. o \in [kind : {k}, batch : Batches(k),
                 stage : {"looking", "creating", "found", "done", "failed"},
                 pos : 1 .. MaxLines + 1, claimed : SUBSET Keys]
      BY <1>1, <1>3
    <3> QED BY <3>1
  <2>2. Len(o.batch) \in 1 .. MaxLines
    BY <2>1, BatchLines
  <2> QED BY <1>3, <2>1, <2>2 DEF JobIsSound
<1> QED BY <1>2, <1>3

LEMMA AdvanceIsSound ==
    ASSUME NEW o, JobIsSound(o), o.stage \in {"looking", "creating"}
    PROVE  JobIsSound(Advance(o))
<1> DEFINE a == Advance(o)
<1>1. /\ Len(o.batch) \in 1 .. MaxLines /\ o.batch[o.pos] \in Entries
      /\ o.pos \in 1 .. Len(o.batch)
  BY BatchLines DEF JobIsSound
<1>2. o.batch[o.pos] \subseteq Keys
  BY <1>1 DEF Entries, Keys
<1>3. /\ a.kind = o.kind /\ a.batch = o.batch /\ a.pos = o.pos + 1
      /\ a.stage = IF o.pos = Len(o.batch) THEN "done" ELSE "looking"
      /\ a.claimed = o.claimed \cup o.batch[o.pos]
      /\ a = [kind |-> a.kind, batch |-> a.batch, stage |-> a.stage, pos |-> a.pos,
              claimed |-> a.claimed]
  <2>1. PICK k, b, s, p, c :
          o = [kind |-> k, batch |-> b, stage |-> s, pos |-> p, claimed |-> c]
    BY DEF JobIsSound
  <2>2. o.kind = k /\ o.batch = b /\ o.stage = s /\ o.pos = p /\ o.claimed = c
    BY <2>1
  <2>3. a = [kind |-> k, batch |-> b, stage |-> IF p = Len(b) THEN "done" ELSE "looking",
             pos |-> p + 1, claimed |-> c \cup b[p]]
    <3> DEFINE last == IF p = Len(b) THEN "done" ELSE "looking"
               keys == c \cup b[p]
    <3>1. a = [o EXCEPT !.pos = p + 1, !.claimed = keys, !.stage = last]
      BY <2>2 DEF Advance
    <3> HIDE DEF a, last, keys
    <3>2. a = [kind |-> k, batch |-> b, stage |-> last, pos |-> p + 1, claimed |-> keys]
      BY <2>1, <3>1
    <3> QED BY <3>2 DEF last, keys
  <2> HIDE DEF a
  <2>4. /\ a.kind = k /\ a.batch = b /\ a.pos = p + 1 /\ a.claimed = c \cup b[p]
        /\ a.stage = IF p = Len(b) THEN "done" ELSE "looking"
        /\ a = [kind |-> a.kind, batch |-> a.batch, stage |-> a.stage, pos |-> a.pos,
                claimed |-> a.claimed]
    BY <2>3
  <2> QED BY <2>2, <2>4
<1> HIDE DEF a
<1>4. JobIsSound(a)
  BY <1>1, <1>2, <1>3, ContactsAssumption DEF JobIsSound, ContactsAssumption
<1> QED BY <1>4 DEF a

LEMMA StageIsSound ==
    ASSUME NEW o, JobIsSound(o), o.stage \in {"looking", "creating", "found"},
           NEW s \in {"creating", "found", "done", "failed"}
    PROVE  JobIsSound([o EXCEPT !.stage = s])
BY DEF JobIsSound

(* A job's step leaves it sound. *)
LEMMA JobKeptSound ==
    ASSUME BookTypeInv, NEW j \in Jobs, NEW o, JobIsSound(o), job' = [job EXCEPT ![j] = o]
    PROVE  /\ JobsInv'
           /\ job' \in [Jobs -> UNION {JobsOf(k) : k \in JobKinds}]
<1>1. job' = [q \in Jobs |-> IF q = j THEN o ELSE job[q]]
  BY DEF BookTypeInv, BookTypeOK
<1>2. \A q \in Jobs : JobIsSound(job'[q])
  BY <1>1 DEF BookTypeInv, JobsInv
<1> QED BY <1>1, <1>2, SoundJobType DEF JobsInv

LEMMA JobStepTypes ==
    ASSUME BookTypeInv, NEW j \in Jobs, JobStep(j)
    PROVE  BookTypeInv'
<1>0. BookTypeOK /\ JobIsSound(job[j])
  BY DEF BookTypeInv, JobsInv
<1> USE DEF BookTypeInv
<1>1. CASE Look(j)
  <2> DEFINE known == \E x \in Rows : Matches(x, Entry(j))
             o == CASE job[j].kind = "import" /\ (DupeInBatch(j) \/ known) -> Advance(job[j])
                    [] known -> [job[j] EXCEPT !.stage = "found"]
                    [] OTHER -> [job[j] EXCEPT !.stage = "creating"]
  <2>1. o \in {Advance(job[j]), [job[j] EXCEPT !.stage = "found"],
               [job[j] EXCEPT !.stage = "creating"]}
    OBVIOUS
  <2>2. job' = [job EXCEPT ![j] = o]
    BY <1>1 DEF Look
  <2> HIDE DEF o
  <2>3. JobIsSound(o)
    BY <1>0, <1>1, <2>1, AdvanceIsSound, StageIsSound DEF Look
  <2>4. blind' \in [Jobs -> SUBSET Rows]
    BY <1>0, <1>1 DEF Look, BookTypeOK
  <2> QED BY <1>0, <1>1, <2>2, <2>3, <2>4, JobKeptSound DEF Look, BookTypeOK
<1>2. CASE UpdateFound(j) \/ JobThrows(j)
  <2>1. PICK s \in {"done", "failed"} :
          job' = [job EXCEPT ![j] = [job[j] EXCEPT !.stage = s]]
    BY <1>2 DEF UpdateFound, JobThrows
  <2>2. JobIsSound([job[j] EXCEPT !.stage = s])
    BY <1>0, <1>2, StageIsSound DEF UpdateFound, JobThrows
  <2>3. JobsInv' /\ job' \in [Jobs -> UNION {JobsOf(k) : k \in JobKinds}]
    BY <2>1, <2>2, JobKeptSound
  <2>4. bookFaults' \in 0 .. MaxBookFaults
    BY <1>0, <1>2, ContactsAssumption
       DEF UpdateFound, JobThrows, BookFault, BookTypeOK, ContactsAssumption
  <2> QED BY <1>0, <1>2, <2>3, <2>4 DEF UpdateFound, JobThrows, BookTypeOK
<1>3. CASE Create(j)
  <2>1. JobsInv' /\ job' \in [Jobs -> UNION {JobsOf(k) : k \in JobKinds}]
    <3>1. JobIsSound(Advance(job[j]))
      BY <1>0, <1>3, AdvanceIsSound DEF Create
    <3>2. job' = [job EXCEPT ![j] = Advance(job[j])]
      BY <1>3 DEF Create
    <3> QED BY <3>1, <3>2, JobKeptSound
  <2>2. made' \in Rows /\ made' \in 0 .. MaxRows
    BY <1>0, <1>3, ContactsAssumption DEF Create, BookTypeOK, Rows, ContactsAssumption
  <2>3. Entry(j) \subseteq Keys
    <3>1. Entry(j) \in Entries
      BY <1>0, <1>3, BatchLines DEF Create, Entry, JobIsSound
    <3> QED BY <3>1 DEF Entries, Keys
  <2>4. book' \in [Rows -> RowStates]
    <3>1. [NoRow EXCEPT !.stored = TRUE, !.keys = Entry(j)] \in RowStates
      BY <2>3 DEF NoRow, RowStates
    <3> QED BY <1>0, <1>3, <2>2, <3>1 DEF Create, BookTypeOK
  <2>5. /\ maker' \in [Rows -> JobKinds \cup {"none"}]
        /\ blind' \in [Jobs -> SUBSET Rows]
    BY <1>0, <1>3, <2>2 DEF Create, BookTypeOK, JobIsSound
  <2>6. raced' \subseteq SUBSET Rows
    <3>1. \A x \in blind[j] : {made', x} \subseteq Rows
      BY <1>0, <2>2 DEF BookTypeOK
    <3> QED BY <1>0, <1>3, <3>1 DEF Create, BookTypeOK
  <2> QED BY <1>0, <1>3, <2>1, <2>2, <2>4, <2>5, <2>6 DEF Create, BookTypeOK
<1> QED BY <1>1, <1>2, <1>3 DEF JobStep

(* One field of one row is written. *)
LEMMA RowEdited ==
    ASSUME BookTypeOK, NEW x \in Rows, NEW flag \in BOOLEAN,
           NEW status \in {"open", "opted_out", "converted"}
    PROVE  /\ [book EXCEPT ![x].stored = flag] \in [Rows -> RowStates]
           /\ [book EXCEPT ![x].aged = flag] \in [Rows -> RowStates]
           /\ [book EXCEPT ![x].status = status] \in [Rows -> RowStates]
<1>1. /\ [book[x] EXCEPT !.stored = flag] \in RowStates
      /\ [book[x] EXCEPT !.aged = flag] \in RowStates
      /\ [book[x] EXCEPT !.status = status] \in RowStates
  BY DEF BookTypeOK, RowStates
<1> QED BY <1>1 DEF BookTypeOK

LEMMA RowStepTypes ==
    ASSUME BookTypeInv, NEW x \in Rows, RowStep(x)
    PROVE  BookTypeInv'
<1>0. BookTypeOK /\ JobsInv
  BY DEF BookTypeInv
<1>1. job' = job /\ book' \in [Rows -> RowStates]
  <2>1. PICK flag \in BOOLEAN, status \in {"open", "opted_out", "converted"} :
          book' \in {[book EXCEPT ![x].stored = flag], [book EXCEPT ![x].aged = flag],
                    [book EXCEPT ![x].status = status]}
    BY DEF RowStep, Answer, Convert, Contact, Age, Erase
  <2>2. job' = job
    BY DEF RowStep, Answer, Convert, Contact, Age, Erase
  <2> DEFINE shown == [book EXCEPT ![x].stored = flag]
             dated == [book EXCEPT ![x].aged = flag]
             closed == [book EXCEPT ![x].status = status]
  <2>3. /\ shown \in [Rows -> RowStates] /\ dated \in [Rows -> RowStates]
        /\ closed \in [Rows -> RowStates]
    BY <1>0, RowEdited
  <2>4. book' \in {shown, dated, closed}
    BY <2>1
  <2> HIDE DEF shown, dated, closed
  <2> QED BY <2>2, <2>3, <2>4
<1>2. silenced' \subseteq Rows /\ altered' \in [Sweeps -> SUBSET Rows]
  BY <1>0 DEF RowStep, Answer, Convert, Contact, Age, Erase, Change, BookTypeOK
<1>3. UNCHANGED <<made, condemned, bookFaults, maker, blind, raced>>
  BY DEF RowStep, Answer, Convert, Contact, Age, Erase
<1> QED BY <1>0, <1>1, <1>2, <1>3 DEF BookTypeInv, BookTypeOK, JobsInv

LEMMA SweepStepTypes ==
    ASSUME BookTypeInv, NEW t \in Sweeps, SweepStep(t)
    PROVE  BookTypeInv'
<1>0. BookTypeOK /\ JobsInv
  BY DEF BookTypeInv
<1>1. CASE StartSweep(t)
  BY <1>0, <1>1 DEF StartSweep, BookTypeInv, BookTypeOK, JobsInv
<1>2. ASSUME NEW x \in Rows, Purge(t, x)
      PROVE  BookTypeInv'
  <2>1. book' \in [Rows -> RowStates]
    BY <1>0, <1>2, RowEdited DEF Purge
  <2> QED BY <1>0, <1>2, <2>1 DEF Purge, BookTypeInv, BookTypeOK, JobsInv
<1>3. ASSUME NEW x \in Rows, PurgeThrows(t, x)
      PROVE  BookTypeInv'
  <2>1. bookFaults' \in 0 .. MaxBookFaults
    BY <1>0, <1>3, ContactsAssumption DEF PurgeThrows, BookFault, BookTypeOK, ContactsAssumption
  <2> QED BY <1>0, <1>3, <2>1 DEF PurgeThrows, BookTypeInv, BookTypeOK, JobsInv
<1> QED BY <1>1, <1>2, <1>3 DEF SweepStep

(* Every row, job and snapshot keeps its type, and a request that is not over   *)
(* is at a line of its file (the loop of leadImport.ts createLeadsDeduped).     *)
THEOREM BookTypeCorrect == BookSpec => [](BookTypeOK /\ JobsInv)
<1>1. BookInit => BookTypeInv
  <2> SUFFICES ASSUME BookInit
               PROVE  BookTypeInv
    OBVIOUS
  <2>1. \A j \in Jobs : job[j] \in UNION {JobsOf(k) : k \in JobKinds} /\ job[j].pos = 1
    BY DEF BookInit
  <2>2. JobsInv
    BY <2>1, SoundJobType DEF JobsInv
  <2>3. job \in [Jobs -> UNION {JobsOf(k) : k \in JobKinds}]
    BY DEF BookInit
  <2>4. NoRow \in RowStates
    BY DEF NoRow, RowStates
  <2> QED BY <2>2, <2>3, <2>4, ContactsAssumption
          DEF BookInit, BookTypeInv, BookTypeOK, ContactsAssumption
<1>2. BookTypeInv /\ [BookNext]_bookVars => BookTypeInv'
  <2>1. BookTypeInv /\ UNCHANGED bookVars => BookTypeInv'
    BY DEF bookVars, BookTypeInv, BookTypeOK, JobsInv
  <2> QED BY <2>1, JobStepTypes, RowStepTypes, SweepStepTypes DEF BookNext
<1>3. BookTypeInv => BookTypeOK /\ JobsInv
  BY DEF BookTypeInv
<1> QED BY <1>1, <1>2, <1>3, PTL DEF BookSpec
===============================================================================
