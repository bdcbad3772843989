--------------------------- MODULE HandlerFilters ---------------------------
(***************************************************************************)
(* How IndexerManager applies the filters: FilterTypeMap gives the filter  *)
(* of a handler of a runtime data source to filterMessageData or           *)
(* filterEvent, baseCustomHandlerFilter gives the base filters of a custom *)
(* data source's processor to filterMessages or filterEvents.              *)
(***************************************************************************)
EXTENDS Filters

CONSTANTS
    Messages,       \* messages the chain may carry
    MessageFilters, \* filters a manifest may give a message handler
    Events,         \* events, [type, attributes, msg] with msg <<>> or <<m>>
    EventFilters    \* filters a manifest may give an event handler

ASSUME FiltersAssumption ==
    /\ \A m \in Messages : IsMessage(m)
    /\ \A f \in MessageFilters : IsFilter(f)
    /\ \A e \in Events : IsEvent(e)
    /\ \A f \in EventFilters : IsFilter(f.messageFilter)

(* One message, or one event, is put before the filters of one handler.    *)
(* The functions keep no state, so a behaviour is one evaluation.          *)

VARIABLES
    subject,    \* [kind |-> "message" or "event", data |-> the object]
    asked,      \* the filters evaluated, a sequence
    verdict     \* their verdict, "none" before

filterVars == <<subject, asked, verdict>>

FilterInit ==
    /\ subject \in [kind : {"message"}, data : Messages]
                   \cup [kind : {"event"}, data : Events]
    /\ asked = <<>>
    /\ verdict = "none"

(* FilterTypeMap[Message]: the filter of one handler of a runtime ds.      *)
AskMessage(f) ==
    /\ subject.kind = "message"
    /\ asked' = <<f>>
    /\ verdict' = FilterMessageData(subject.data, f)
    /\ UNCHANGED subject

(* baseCustomHandlerFilter, case Message: the base filters of a custom ds. *)
AskMessages(f, g) ==
    /\ subject.kind = "message"
    /\ asked' = <<f, g>>
    /\ verdict' = FilterMessages(subject.data, <<f, g>>)
    /\ UNCHANGED subject

(* FilterTypeMap[Event]                                                    *)
AskEvent(f) ==
    /\ subject.kind = "event"
    /\ asked' = <<f>>
    /\ verdict' = FilterEvent(subject.data, f)
    /\ UNCHANGED subject

(* baseCustomHandlerFilter, case Event                                     *)
AskEvents(f, g) ==
    /\ subject.kind = "event"
    /\ asked' = <<f, g>>
    /\ verdict' = FilterEvents(subject.data, <<f, g>>)
    /\ UNCHANGED subject

FilterNext == verdict = "none" /\
    \/ \E f \in MessageFilters : AskMessage(f)
    \/ \E f, g \in MessageFilters \ {NoFilter} : AskMessages(f, g)
    \/ \E f \in EventFilters : AskEvent(f)
    \/ \E f, g \in EventFilters \ {NoEventFilter} : AskEvents(f, g)

FilterSpec == FilterInit /\ [][FilterNext]_filterVars

-----------------------------------------------------------------------------
(* A message or event is kept exactly when some filter of the handler asks *)
(* for it: early exit, path walk, Long conversion and the search through a *)
(* list of base filters lose nothing and let nothing else pass.            *)
VerdictAgrees ==
    /\ verdict = "true" => \E f \in ToSet(asked) : Wanted(subject, f)
    /\ verdict = "false" => \A f \in ToSet(asked) : ~Wanted(subject, f)

(* Filtering throws, which fails the whole block, only over a message of   *)
(* the type the filter names: messages of other types, and those of failed *)
(* transactions, are never decoded ("does not lazy decode failed message   *)
(* filters").                                                              *)
ThrowsOnlyOverMatchingBody ==
    verdict = "throw" =>
        \E f \in ToSet(asked) :
            IF subject.kind = "message" THEN MayThrow(subject.data, f)
            ELSE /\ subject.data.type = f.type
                 /\ subject.data.msg # <<>>
                 /\ MayThrow(subject.data.msg[1], f.messageFilter)

=============================================================================
