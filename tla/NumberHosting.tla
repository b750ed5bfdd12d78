----------------------------- MODULE NumberHosting -----------------------------
(***************************************************************************)
(* The channel credentials of one tenant and the order that turns the         *)
(* client's own number into an SMS channel.  PATCH /tenants/me and            *)
(* /admin/tenants/:id replace all channels; connect-number opens an order at   *)
(* Twilio; a refresh asks Twilio about the order it read and, once that is     *)
(* completed, adds the number to the channels it read.  Orders and channels    *)
(* are one column each, and a request is cut at its call of Twilio.            *)
(***************************************************************************)
EXTENDS Naturals, FiniteSets

CONSTANTS
    HostingRequests,  \* administrator's connect and refresh requests
    Numbers,          \* numbers of the client
    SharedAccount,    \* are DEFAULT_TWILIO_* and DEFAULT_SENDGRID_* set?
    MaxOrders,        \* bound: orders opened at Twilio
    NoValue

ASSUME HostingAssumption ==
    /\ SharedAccount \in BOOLEAN
    /\ MaxOrders \in Nat
    /\ NoValue \notin Numbers

VARIABLES
    tenantRow,  \* channels and numberHostingOrder
    hosting,    \* request -> how far it is, and what it read or opened
    twilio,     \* order -> its number and its status at Twilio
    opened      \* orders opened so far; their ids are 1 .. opened

(* History variables.                                                        *)
VARIABLES
    meant,      \* the channels and the order that were asked for last
    overtaken,  \* refreshes whose reading a write has made untrue
    clobbered   \* the columns such a refresh has written since

hostingVars == <<tenantRow, hosting, twilio, opened, meant, overtaken, clobbered>>

Orders == 1 .. MaxOrders
OrderStates == {"pending", "action-required", "failed", "completed"}

(* What a caller may say of a channel: its own account, only the number or     *)
(* address, half an account, nothing.                                         *)
Bodies == [sms : {"own", "bare", "half", NoValue}, email : {"own", "bare", NoValue}]

(* What is stored: the own account, the shared one, a hosted number on it.      *)
Channels ==
    [sms : {"own", "shared", NoValue} \cup Numbers, email : {"own", "shared", NoValue}]

HostingOrders == [sid : Orders, number : Numbers, status : OrderStates]

ASSUME HostingOrderAssumption == NoValue \notin HostingOrders

TenantRows == [channels : Channels, order : HostingOrders \cup {NoValue}]

EmptyRow == [channels |-> [sms |-> NoValue, email |-> NoValue], order |-> NoValue]

HostingTypeOK ==
    /\ tenantRow \in TenantRows
    /\ hosting \in [HostingRequests ->
           [stage : {"new", "opened", "asking", "answered", "done"}, read : TenantRows,
            sid : 0 .. MaxOrders, answer : OrderStates]]
    /\ opened \in 0 .. MaxOrders
    /\ twilio \in [Orders -> [number : Numbers \cup {NoValue}, status : OrderStates]]
    /\ meant \in [channels : Channels, order : 0 .. MaxOrders]
    /\ overtaken \in [HostingRequests -> SUBSET {"channels", "order"}]
    /\ clobbered \subseteq {"channels", "order"}

HostingInit ==
    /\ tenantRow = EmptyRow
    /\ hosting = [j \in HostingRequests |->
                     [stage |-> "new", read |-> EmptyRow, sid |-> 0, answer |-> "pending"]]
    /\ opened = 0
    /\ twilio = [o \in Orders |-> [number |-> NoValue, status |-> "pending"]]
    /\ meant = [channels |-> EmptyRow.channels, order |-> 0]
    /\ overtaken = [j \in HostingRequests |-> {}]
    /\ clobbered = {}

(* A write of the columns in cols makes the running refreshes' reading untrue.  *)
Overtake(cols) ==
    overtaken' = [j \in HostingRequests |->
        IF hosting[j].stage \in {"asking", "answered"} THEN overtaken[j] \cup cols ELSE overtaken[j]]

-------------------------------------------------------------------------------
(* resolveChannelDefaults: the shared account fills in what the body leaves     *)
(* out; half an account, or no shared one, is an error.                        *)
Resolvable(body) ==
    /\ body.sms # "half"
    /\ "bare" \in {body.sms, body.email} => SharedAccount

Resolved(body) ==
    [sms |-> IF body.sms = "bare" THEN "shared" ELSE body.sms,
     email |-> IF body.email = "bare" THEN "shared" ELSE body.email]

(* PATCH /tenants/me or /admin/tenants/:id with channels. *)
SaveChannels(body) ==
    /\ Resolvable(body)
    /\ tenantRow' = [tenantRow EXCEPT !.channels = Resolved(body)]
    /\ meant' = [meant EXCEPT !.channels = Resolved(body)]
    /\ clobbered' = clobbered \ {"channels"}
    /\ Overtake({"channels"})
    /\ UNCHANGED <<hosting, twilio, opened>>

-------------------------------------------------------------------------------
(* Orders. *)

(* startNumberHosting: without a shared account it throws, and the request is   *)
(* answered with 502.                                                         *)
OpenOrder(j, n) ==
    /\ hosting[j].stage = "new"
    /\ SharedAccount
    /\ opened < MaxOrders
    /\ opened' = opened + 1
    /\ twilio' = [twilio EXCEPT ![opened'].number = n]
    /\ hosting' = [hosting EXCEPT ![j].stage = "opened", ![j].sid = opened']
    /\ UNCHANGED <<tenantRow, meant, overtaken, clobbered>>

(* The response of Twilio is stored; an order the process died with is never.   *)
StoreOrder(j) ==
    LET o == hosting[j].sid
    IN /\ hosting[j].stage = "opened"
       /\ tenantRow' = [tenantRow EXCEPT !.order =
              [sid |-> o, number |-> twilio[o].number, status |-> "pending"]]
       /\ hosting' = [hosting EXCEPT ![j].stage = "done"]
       /\ meant' = [meant EXCEPT !.order = o]
       /\ clobbered' = clobbered \ {"order"}
       /\ Overtake({"order"})
       /\ UNCHANGED <<twilio, opened>>

(* Twilio calls the number, waits for a signature, asks the carrier.            *)
OrderMoves(o, status) ==
    /\ o <= opened
    /\ twilio[o].status \in {"pending", "action-required"}
    /\ twilio[o].status # status
    /\ twilio' = [twilio EXCEPT ![o].status = status]
    /\ UNCHANGED <<tenantRow, hosting, opened, meant, overtaken, clobbered>>

(* POST .../connect-number/refresh reads the row and asks about its order.      *)
AskTwilio(j) ==
    /\ hosting[j].stage = "new"
    /\ SharedAccount
    /\ tenantRow.order # NoValue
    /\ hosting' = [hosting EXCEPT ![j].stage = "asking", ![j].read = tenantRow,
                                  ![j].sid = tenantRow.order.sid]
    /\ overtaken' = [overtaken EXCEPT ![j] = {}]
    /\ UNCHANGED <<tenantRow, twilio, opened, meant, clobbered>>

(* refreshNumberHostingStatus. *)
TwilioAnswers(j) ==
    /\ hosting[j].stage = "asking"
    /\ hosting' = [hosting EXCEPT ![j].stage = "answered",
                                  ![j].answer = twilio[hosting[j].sid].status]
    /\ UNCHANGED <<tenantRow, twilio, opened, meant, overtaken, clobbered>>

(* The order is completed and no SMS channel was there. *)
AddsNumber(j) ==
    hosting[j].answer = "completed" /\ hosting[j].read.channels.sms = NoValue

(* Faulty variant of WithNumber: the other channels are left out.              *)
OnlyNumber(channels, n) == [sms |-> n, email |-> NoValue]

(* { ...existing.channels, sms }, on the shared account.                       *)
WithNumber(channels, n) == [channels EXCEPT !.sms = n]

(* One update with the order as it was read plus the answer, and the channels   *)
(* if the number goes live.                                                   *)
StoreAnswer(j) ==
    LET read == hosting[j].read
        n == twilio[hosting[j].sid].number
        cols == IF AddsNumber(j) THEN {"channels"} ELSE {}
    IN /\ hosting[j].stage = "answered"
       /\ tenantRow' =
              [channels |-> IF AddsNumber(j) THEN WithNumber(read.channels, n)
                            ELSE tenantRow.channels,
               order |-> [read.order EXCEPT !.status = hosting[j].answer]]
       /\ meant' = IF AddsNumber(j) THEN [meant EXCEPT !.channels.sms = n] ELSE meant
       /\ clobbered' = clobbered \cup (overtaken[j] \cap (cols \cup {"order"}))
       /\ hosting' = [hosting EXCEPT ![j].stage = "done"]
       /\ Overtake(cols)
       /\ UNCHANGED <<twilio, opened>>

(* Twilio does not answer, or the process dies: nothing is stored.             *)
RequestFails(j) ==
    /\ hosting[j].stage \in {"opened", "asking", "answered"}
    /\ hosting' = [hosting EXCEPT ![j].stage = "done"]
    /\ UNCHANGED <<tenantRow, twilio, opened, meant, overtaken, clobbered>>

HostingStep(j) ==
    \/ \E n \in Numbers : OpenOrder(j, n)
    \/ StoreOrder(j) \/ AskTwilio(j) \/ TwilioAnswers(j) \/ StoreAnswer(j)
    \/ RequestFails(j)

HostingNext ==
    \/ \E body \in Bodies : SaveChannels(body)
    \/ \E o \in Orders, status \in OrderStates \ {"pending"} : OrderMoves(o, status)
    \/ \E j \in HostingRequests : HostingStep(j)

HostingSpec == HostingInit /\ [][HostingNext]_hostingVars

-------------------------------------------------------------------------------
(* Properties. *)

(* The channels are those the tenant or the agency saved last, plus the number  *)
(* that has gone live since, and the order is the one opened last, unless a     *)
(* refresh wrote from a row that another write had changed under it.           *)
RefreshKeepsConfig ==
    /\ "channels" \notin clobbered => tenantRow.channels = meant.channels
    /\ "order" \notin clobbered =>
           IF meant.order = 0 THEN tenantRow.order = NoValue
           ELSE tenantRow.order # NoValue /\ tenantRow.order.sid = meant.order
===============================================================================
