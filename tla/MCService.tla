------------------------------ MODULE MCService ------------------------------
(***************************************************************************)
(* Service as TLC checks it: environments in which all variables are blank *)
(* but one, whose text is of every form and at the ends of every range.    *)
(***************************************************************************)
EXTENDS ServiceProperties

CONSTANTS r1, r2

Blank == [form |-> "blank"]

\* The last two overflow, to below zero and to zero.
SecondsWritten == {-1, 0, 5, 10}

\* This overflows to a positive duration, and Validate lets it through.
LongPoll == [form |-> "int", value |-> 12]

\* Validate lets this through too, and make panics.
LongQueue == [form |-> "int", value |-> Allocatable + 1]

DurationTexts ==
    {[form |-> "duration", value |-> d] : d \in {-1, 0}}
        \union {[form |-> "int", value |-> n] : n \in SecondsWritten}

NumberTexts == {[form |-> "int", value |-> n] : n \in {-1, 0}}

OtherTexts == {[form |-> "text", value |-> "default"]}

FlagTexts == {[form |-> "bool", value |-> TRUE],
              [form |-> "bool", value |-> FALSE],
              [form |-> "int", value |-> 1]}

ListTexts == {[form |-> "list", value |-> l] : l \in {{}, {"default"}}}

\* With the rest left blank.
Only(v, texts) == {[[u \in Names |-> Blank] EXCEPT ![v] = text] : text \in texts}

MCEnvironments ==
    UNION {Only(v, DurationTexts) : v \in Durations}
        \union UNION {Only(v, NumberTexts \union OtherTexts) : v \in Numbers}
        \union UNION {Only(v, FlagTexts) : v \in Flags}
        \union UNION {Only(v, OtherTexts) : v \in Texts}
        \union Only("KafkaBrokers", ListTexts \union OtherTexts)
        \union Only("PersistenceWorkers", {[form |-> "int", value |-> 2]})
        \union Only("PersistenceQueueSize", {LongQueue})
        \union Only("PollInterval", {LongPoll})
=============================================================================
