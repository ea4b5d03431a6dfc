------------------------------ MODULE KeyNames ------------------------------
(***************************************************************************)
(* The names a 3270 key has on its way through the program: the text a     *)
(* client posts, the key the host is sent, the step type of a recording    *)
(* and s3270's own key specification.  A key or a step type is a record of *)
(* a name and a number, the number being 0 where the name has none; the    *)
(* letter case and the blanks around a name, which every function strips   *)
(* or folds, are left out.                                                 *)
(***************************************************************************)
EXTENDS Integers

Key(name, n) == [name |-> name, n |-> n]

Plain(name) == Key(name, 0)

(* The keys that have a name of their own. *)
KeyNameSet ==
    {"Enter", "Tab", "BackTab", "Clear", "Reset", "EraseEOF", "EraseInput", "Dup",
     "FieldMark", "SysReq", "Attn", "Newline", "BackSpace", "Delete", "Insert", "Home",
     "Up", "Down", "Left", "Right"}

(* The keys processSubmit can hand to the host. *)
SentKeys ==
    {Plain(name) : name \in KeyNameSet}
        \cup {Key("PF", n) : n \in 1..24} \cup {Key("PA", n) : n \in 1..3}

Enter == Plain("Enter")

(* Posted text: PF(n), PA(n), PFn, PAn and Fn are told apart by their name. *)
PostedFunctionNames == {"PF()", "PF", "F"}
PostedAttentionNames == {"PA()", "PA"}

(* normalizeKey: anything it does not know, a number out of range included,*)
(* is Enter.                                                               *)
NormalizeKey(posted) ==
    CASE posted.name \in PostedFunctionNames /\ posted.n \in 1..24 -> Key("PF", posted.n)
      [] posted.name \in PostedAttentionNames /\ posted.n \in 1..3 -> Key("PA", posted.n)
      [] posted.name \in KeyNameSet /\ posted.n = 0 -> posted
      [] OTHER -> Enter

NoStep == Plain("")

(* workflowStepForKey and the blank case of recordActionKey: the step types*)
(* a recording can hold.  Every other key is not recorded.                 *)
StepForKey(key) ==
    CASE key = Enter -> Plain("PressEnter")
      [] key = Plain("Tab") -> Plain("PressTab")
      [] key.name = "PF" /\ key.n \in 1..24 -> Key("PressPF", key.n)
      [] OTHER -> NoStep

(* The plain keys' step types, as workflowKeyForStepType lists them. *)
PressName ==
    [name \in KeyNameSet |->
        CASE name = "Enter" -> "PressEnter"
          [] name = "Tab" -> "PressTab"
          [] name = "BackTab" -> "PressBackTab"
          [] name = "Clear" -> "PressClear"
          [] name = "Reset" -> "PressReset"
          [] name = "EraseEOF" -> "PressEraseEOF"
          [] name = "EraseInput" -> "PressEraseInput"
          [] name = "Dup" -> "PressDup"
          [] name = "FieldMark" -> "PressFieldMark"
          [] name = "SysReq" -> "PressSysReq"
          [] name = "Attn" -> "PressAttn"
          [] name = "Newline" -> "PressNewline"
          [] name = "BackSpace" -> "PressBackspace"
          [] name = "Delete" -> "PressDelete"
          [] name = "Insert" -> "PressInsert"
          [] name = "Home" -> "PressHome"
          [] name = "Up" -> "PressUp"
          [] name = "Down" -> "PressDown"
          [] name = "Left" -> "PressLeft"
          [] name = "Right" -> "PressRight"]

NoKey == Plain("")

(* workflowKeyForStepType, which playback asks for the key of a step. *)
KeyForStep(step) ==
    CASE step.name = "PressPF" /\ step.n \in 1..24 -> Key("PF", step.n)
      [] step.name = "PressPA" /\ step.n \in 1..3 -> Key("PA", step.n)
      [] step.n = 0 /\ \E name \in KeyNameSet : PressName[name] = step.name ->
            Plain(CHOOSE name \in KeyNameSet : PressName[name] = step.name)
      [] OTHER -> NoKey

(* aidKeyToStepType: the step a chaos run exports for a key it pressed; it *)
(* does not look at the number.                                            *)
ExportedStep(key) ==
    CASE key.name \in {"Enter", "Clear", "Tab"} /\ key.n = 0 -> Plain(PressName[key.name])
      [] key.name = "PF" -> Key("PressPF", key.n)
      [] key.name = "PA" -> Key("PressPA", key.n)
      [] OTHER -> Plain("PressEnter")

(* keyToKeySpec: PF(n) becomes PFn and PA(n) PAn; any other key's name is  *)
(* passed on as it is.                                                     *)
KeySpec(key) ==
    CASE key.name = "PF" -> Key("PFn", key.n)
      [] key.name = "PA" -> Key("PAn", key.n)
      [] OTHER -> key
=============================================================================
