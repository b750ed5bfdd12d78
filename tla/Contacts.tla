------------------------------- MODULE Contacts -------------------------------
(***************************************************************************)
(* How the rows of one tenant's leads come and go.  Intake by CRM webhook,    *)
(* missed call and CSV import looks for a row with the same phone or email    *)
(* first and creates one only if there is none; the website form and the chat *)
(* widget always create one.  A STOP is recorded in the status of one row, so *)
(* a second row, or a row that comes back after it was deleted, forgets it.   *)
(* The worker's retention purge deletes closed rows from a snapshot.          *)
(*                                                                         *)
(* There is no unique constraint on a contact and no transaction: every job   *)
(* is cut at its awaits.  A job is one that passed the tenant's gate, which   *)
(* is read once at its start.                                                *)
(***************************************************************************)
EXTENDS Integers, Sequences, FiniteSets

CONSTANTS
    Phones, Emails,  \* the contact keys in play
    Jobs,            \* intake requests and command-line imports
    Sweeps,          \* ticks of the worker whose purges can overlap
    MaxRows,         \* bound: rows ever created
    MaxLines,        \* bound: lines of an imported file
    MaxBookFaults    \* bound: store calls that throw

ASSUME ContactsAssumption ==
    /\ Phones \cap Emails = {}
    /\ MaxRows \in Nat /\ MaxLines \in Nat \ {0} /\ MaxBookFaults \in Nat

VARIABLES
    book,       \* row id -> the row; what is left of a deleted one is history
    made,       \* rows created so far; their ids are 1 .. made
    job,        \* job -> what it is and how far it is
    condemned,  \* tick -> rows its snapshot shows past retention, not yet deleted
    bookFaults

(* History variables.                                                        *)
VARIABLES
    maker,      \* row -> the kind of job that created it
    blind,      \* job -> rows created since it looked for one
    raced,      \* pairs of rows, one created while the other's job was blind
    silenced,   \* rows whose last word is a stop that nobody overruled
    altered     \* tick -> rows that changed since its snapshot

bookVars ==
    <<book, made, job, condemned, bookFaults, maker, blind, raced, silenced, altered>>

Rows == 1 .. MaxRows
Keys == Phones \cup Emails

(* What a row or a line of a file says of its person: a phone, an email or     *)
(* both.  parseLeadsCsv and the endpoints drop a lead with neither.            *)
Entries ==
    {{k} : k \in Keys} \cup {{p, e} : p \in Phones, e \in Emails}

Deduping == {"crm", "call", "import"}
JobKinds == Deduping \cup {"form"}

(* An import has a file of several lines, every other job one entry; a missed   *)
(* call only a number.                                                       *)
JobsOf(k) ==
    [kind : {k},
     batch : CASE k = "import" -> UNION {[1 .. n -> Entries] : n \in 1 .. MaxLines}
               [] k = "call" -> [{1} -> {{p} : p \in Phones}]
               [] OTHER -> [{1} -> Entries],
     stage : {"looking", "creating", "found", "done", "failed"},
     pos : 1 .. MaxLines + 1,
     claimed : SUBSET Keys]

RowStates ==
    [stored : BOOLEAN, keys : SUBSET Keys,
     status : {"open", "opted_out", "converted"}, aged : BOOLEAN]

NoRow == [stored |-> FALSE, keys |-> {}, status |-> "open", aged |-> FALSE]

BookTypeOK ==
    /\ book \in [Rows -> RowStates]
    /\ made \in 0 .. MaxRows
    /\ job \in [Jobs -> UNION {JobsOf(k) : k \in JobKinds}]
    /\ condemned \in [Sweeps -> SUBSET Rows]
    /\ bookFaults \in 0 .. MaxBookFaults
    /\ maker \in [Rows -> JobKinds \cup {"none"}]
    /\ blind \in [Jobs -> SUBSET Rows]
    /\ raced \subseteq SUBSET Rows
    /\ silenced \subseteq Rows
    /\ altered \in [Sweeps -> SUBSET Rows]

BookInit ==
    /\ book = [x \in Rows |-> NoRow]
    /\ made = 0
    /\ job \in [Jobs -> {o \in UNION {JobsOf(k) : k \in JobKinds} :
                           /\ o.stage = IF o.kind = "form" THEN "creating" ELSE "looking"
                           /\ o.pos = 1 /\ o.claimed = {}}]
    /\ condemned = [t \in Sweeps |-> {}]
    /\ bookFaults = 0
    /\ maker = [x \in Rows |-> "none"]
    /\ blind = [j \in Jobs |-> {}]
    /\ raced = {} /\ silenced = {}
    /\ altered = [t \in Sweeps |-> {}]

BookFault == bookFaults < MaxBookFaults /\ bookFaults' = bookFaults + 1

-------------------------------------------------------------------------------
(* Intake. *)

Entry(j) == job[j].batch[job[j].pos]

(* Faulty variant of Matches: phone and email must both agree.               *)
MatchesAll(x, entry) == book[x].stored /\ book[x].keys = entry

(* findLeadByContact: the phone or the email is the same.                     *)
Matches(x, entry) == book[x].stored /\ book[x].keys \cap entry # {}

(* On to the next line of the file, or the end of the request.                *)
Advance(o) ==
    [o EXCEPT !.pos = @ + 1, !.claimed = @ \cup o.batch[o.pos],
              !.stage = IF o.pos = Len(o.batch) THEN "done" ELSE "looking"]

DupeInBatch(j) == job[j].kind = "import" /\ Entry(j) \cap job[j].claimed # {}

(* createLeadsDeduped skips a line, POST /webhooks/lead and the missed call    *)
(* update the row they found.                                                *)
Look(j) ==
    /\ job[j].stage = "looking"
    /\ LET known == \E x \in Rows : Matches(x, Entry(j))
       IN job' = [job EXCEPT ![j] =
              CASE @.kind = "import" /\ (DupeInBatch(j) \/ known) -> Advance(@)
                [] known -> [@ EXCEPT !.stage = "found"]
                [] OTHER -> [@ EXCEPT !.stage = "creating"]]
    /\ blind' = [blind EXCEPT ![j] = {}]
    /\ UNCHANGED <<book, made, condemned, bookFaults, maker, raced, silenced, altered>>

(* updateLead writes what the caller says about the person and the missed-call *)
(* mark, never the contact or the status, and nothing if the row has gone.     *)
UpdateFound(j) ==
    /\ job[j].stage = "found"
    /\ job' = [job EXCEPT ![j].stage = "done"]
    /\ UNCHANGED <<book, made, condemned, bookFaults, maker, blind, raced, silenced,
                   altered>>

(* createLead; ids are random and never used again.                           *)
Create(j) ==
    /\ job[j].stage = "creating"
    /\ made < MaxRows
    /\ made' = made + 1
    /\ book' = [book EXCEPT ![made'] = [NoRow EXCEPT !.stored = TRUE, !.keys = Entry(j)]]
    /\ job' = [job EXCEPT ![j] = Advance(@)]
    /\ maker' = [maker EXCEPT ![made'] = job[j].kind]
    /\ blind' = [q \in Jobs |-> IF job[q].stage = "creating" THEN blind[q] \cup {made'}
                                ELSE blind[q]]
    /\ raced' = raced \cup {{made', x} : x \in blind[j]}
    /\ UNCHANGED <<condemned, bookFaults, silenced, altered>>

(* A store call throws: the request ends, and what an import has created so    *)
(* far stays.                                                                *)
JobThrows(j) ==
    /\ job[j].stage \in {"looking", "creating", "found"}
    /\ BookFault
    /\ job' = [job EXCEPT ![j].stage = "failed"]
    /\ UNCHANGED <<book, made, condemned, maker, blind, raced, silenced, altered>>

-------------------------------------------------------------------------------
(* What the rest of the system does to a row. *)

Change(x) == altered' = [t \in Sweeps |-> altered[t] \cup {x}]

(* A reply of the lead: a stop, or anything else.                            *)
Answer(x, status) ==
    /\ book[x].stored
    /\ book' = [book EXCEPT ![x].status = status]
    /\ silenced' = IF status = "opted_out" THEN silenced \cup {x} ELSE silenced \ {x}
    /\ Change(x)
    /\ UNCHANGED <<made, job, condemned, bookFaults, maker, blind, raced>>

(* POST /leads/:id/convert, whatever the status was.                          *)
Convert(x) ==
    /\ book[x].stored
    /\ book' = [book EXCEPT ![x].status = "converted"]
    /\ silenced' = silenced \ {x}
    /\ Change(x)
    /\ UNCHANGED <<made, job, condemned, bookFaults, maker, blind, raced>>

(* An outreach message or a win-back: lastContactedAt or lastWinBackAt is now.  *)
Contact(x) ==
    /\ book[x].stored /\ book[x].aged
    /\ book[x].status # "opted_out"
    /\ book' = [book EXCEPT ![x].aged = FALSE]
    /\ Change(x)
    /\ UNCHANGED <<made, job, condemned, bookFaults, maker, blind, raced, silenced>>

(* dataRetentionDays pass since the latest of the three dates.                *)
Age(x) ==
    /\ book[x].stored /\ ~book[x].aged
    /\ book' = [book EXCEPT ![x].aged = TRUE]
    /\ UNCHANGED <<made, job, condemned, bookFaults, maker, blind, raced, silenced,
                   altered>>

(* DELETE /leads/:id, a request for erasure.                                 *)
Erase(x) ==
    /\ book[x].stored
    /\ book' = [book EXCEPT ![x].stored = FALSE]
    /\ silenced' = silenced \ {x}
    /\ Change(x)
    /\ UNCHANGED <<made, job, condemned, bookFaults, maker, blind, raced>>

-------------------------------------------------------------------------------
(* The retention purge of a tick. *)

(* Faulty variant of IsPastRetention: a suppressed lead is closed out, too.    *)
IsPastAny(x) == book[x].status \in {"converted", "opted_out"} /\ book[x].aged

(* Nothing writes the two other statuses that are purged, and an opt-out is    *)
(* kept however old it is.                                                   *)
IsPastRetention(x) == book[x].status = "converted" /\ book[x].aged

(* getAllLeads.  Every row is judged as the snapshot shows it, by the tick's    *)
(* fixed now.                                                                *)
StartSweep(t) ==
    /\ condemned[t] = {}
    /\ condemned' = [condemned EXCEPT ![t] =
           {x \in Rows : book[x].stored /\ IsPastRetention(x)}]
    /\ altered' = [altered EXCEPT ![t] = {}]
    /\ UNCHANGED <<book, made, job, bookFaults, maker, blind, raced, silenced>>

(* deleteLead, without a guard; an exception is logged and the next one tried.  *)
Purge(t, x) ==
    /\ x \in condemned[t]
    /\ condemned' = [condemned EXCEPT ![t] = @ \ {x}]
    /\ book' = [book EXCEPT ![x].stored = FALSE]
    /\ silenced' = IF x \in altered[t] THEN silenced \ {x} ELSE silenced
    /\ UNCHANGED <<made, job, bookFaults, maker, blind, raced, altered>>

PurgeThrows(t, x) ==
    /\ x \in condemned[t]
    /\ BookFault
    /\ condemned' = [condemned EXCEPT ![t] = @ \ {x}]
    /\ UNCHANGED <<book, made, job, maker, blind, raced, silenced, altered>>

JobStep(j) == Look(j) \/ UpdateFound(j) \/ Create(j) \/ JobThrows(j)

RowStep(x) ==
    \/ \E status \in {"open", "opted_out"} : Answer(x, status)
    \/ Convert(x) \/ Contact(x) \/ Age(x) \/ Erase(x)

SweepStep(t) ==
    \/ StartSweep(t)
    \/ \E x \in Rows : Purge(t, x) \/ PurgeThrows(t, x)

BookNext ==
    \/ \E j \in Jobs : JobStep(j)
    \/ \E x \in Rows : RowStep(x)
    \/ \E t \in Sweeps : SweepStep(t)

BookSpec == BookInit /\ [][BookNext]_bookVars

-------------------------------------------------------------------------------
(* Properties. *)

(* Two rows share a contact only if one of them came from the form or the chat, *)
(* or was created between the other's look and its creation: an import that     *)
(* failed half way and is repeated, in particular, doubles nothing.             *)
OneRowPerContact ==
    \A x, y \in Rows :
        /\ x # y
        /\ book[x].stored /\ book[y].stored
        /\ maker[x] \in Deduping /\ maker[y] \in Deduping
        /\ book[x].keys \cap book[y].keys # {}
        => {x, y} \in raced

(* Intake that looks first never brings a person back who opted out and was     *)
(* not overruled since, erased on request, or purged by a tick whose snapshot   *)
(* is older than the stop; unless the stopped row was created after the look.   *)
StopIsRemembered ==
    [][\A j \in Jobs, x \in silenced :
          /\ job[j].kind \in Deduping /\ made' # made /\ job'[j] # job[j]
          /\ book[x].keys \cap Entry(j) # {}
          => x \in blind[j]]_bookVars

(* "do_not_contact and opted_out leads are deliberately exempt, no matter how    *)
(* old" (COMPLIANCE.md, 400-401): no purge of a tick deletes an opted-out row.   *)
OptOutsAreKept ==
    [][\A t \in Sweeps : \A x \in condemned[t] \ condemned'[t] :
          book[x].stored /\ book[x].status = "opted_out" => book'[x].stored]_bookVars
===============================================================================
