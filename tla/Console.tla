------------------------------ MODULE Console ------------------------------
(***************************************************************************)
(* What the user of hw1 types and sees: the modes of main_process, the     *)
(* editor of the key (add_char_and_update) and of the value                *)
(* (process_value), and what is shown on the FND, the LCD and the LEDs.    *)
(*                                                                         *)
(* An action is one message that main_process handles.  The store only     *)
(* appears as the index that put_pair returns and the pair that get_pair   *)
(* finds.                                                                  *)
(***************************************************************************)
EXTENDS Integers, Sequences, FiniteSets, SequencesExt

CONSTANTS
  Buttons,     \* the buttons of the switch that are pressed, out of 1..9
  MAX_LENGTH,  \* characters in a value
  LINE_BUFF,   \* characters in a line of the LCD
  PastBytes,   \* how many bytes follow key_map in memory before a NUL
  MaxPuts      \* bound: pairs that are put

ASSUME ConsoleAssumption ==
  /\ Buttons \subseteq 1..9
  /\ MAX_LENGTH \in Nat \ {0} /\ LINE_BUFF \in Nat /\ PastBytes \in Nat /\ MaxPuts \in Nat

VARIABLES
  mode,            \* PUT, GET or MERGE
  put_input_mode,  \* KEY or VALUE
  key,             \* the four digits of the key
  value,           \* the characters of the value
  next_index,      \* add_char_and_update: position of the next digit, 0..4
  num_mode,        \* process_value: digits, not letters
  last_key,        \* process_value: the button pressed last
  press_count,     \* process_value: which of its letters is shown
  table_index,     \* the index the next put_pair returns
  fnd,             \* the digits on the FND
  led,             \* the pattern the LEDs blink
  line2,           \* length of the second LCD line that was printed last
  typed            \* history: the digits typed since the key was cleared

editor == <<next_index, num_mode, last_key, press_count>>
vars == <<mode, put_input_mode, key, value, next_index, num_mode, last_key,
          press_count, table_index, fnd, led, line2, typed>>

INITIAL_KEY == <<0, 0, 0, 0>>
INITIAL_VALUE == <<>>

\* The pairs of LEDs that control_led makes blink.
Led1 == "1"
Led34 == "3,4"
Led5 == "5"
Led78 == "7,8"

----------------------------------------------------------------------------
(* The letters of a button: ten rows of four bytes, one after the other.   *)
(* "pqrs" and "wxyz" fill their rows and leave no room for the NUL.        *)
NUL == "NUL"
key_map ==
  << NUL, NUL, NUL, NUL,    NUL, NUL, NUL, NUL,    "a", "b", "c", NUL,
     "d", "e", "f", NUL,    "g", "h", "i", NUL,    "j", "k", "l", NUL,
     "m", "n", "o", NUL,    "p", "q", "r", "s",    "t", "u", "v", NUL,
     "w", "x", "y", "z" >>

\* The letters printed on a button.
Letters(b) == {key_map[i] : i \in (4 * b + 1)..(4 * b + 4)} \ {NUL}

\* What strlen and the index operator see from a byte on: everything up to a NUL,
\* also behind the end of the array.
CString(i) ==
  LET past  == [n \in 1..PastBytes |-> "?"]
      bytes == SubSeq(key_map, i, Len(key_map)) \o past \o <<NUL>>
  IN  SubSeq(bytes, 1, SelectInSeq(bytes, LAMBDA c : c = NUL) - 1)

\* The row of a button.
Row(b) == CString(4 * b + 1)

\* The digit of a button, '0' + b.
Digit(b) == <<"1", "2", "3", "4", "5", "6", "7", "8", "9">>[b]

\* Digits in a number printed with %d.
Digits(n) == Cardinality({d \in 0..9 : n >= 10 ^ d}) + (IF n = 0 THEN 1 ELSE 0)

\* atoi of the key.
KeyNumber(k) == 1000 * k[1] + 100 * k[2] + 10 * k[3] + k[4]

----------------------------------------------------------------------------
Init ==
  /\ mode = "PUT"
  /\ put_input_mode = "KEY"
  /\ key = INITIAL_KEY
  /\ value = INITIAL_VALUE
  /\ next_index = 0
  /\ num_mode = TRUE /\ last_key = 0 /\ press_count = 0
  /\ table_index = 1
  /\ fnd = INITIAL_KEY
  /\ led = Led1
  /\ line2 = 0
  /\ typed = <<>>

\* "init state": the static variables of the editors keep their values.
InitState ==
  /\ key' = INITIAL_KEY
  /\ value' = INITIAL_VALUE
  /\ put_input_mode' = "KEY"
  /\ typed' = <<>>

\* VOL_UP and VOL_DOWN.  MERGE has no LEDs of its own; the FND is not printed.
Up == [PUT |-> "GET", GET |-> "MERGE", MERGE |-> "PUT"]
Down == [PUT |-> "MERGE", GET |-> "PUT", MERGE |-> "GET"]

\* The LEDs of a mode.
ModeLed(m) == CASE m = "GET" -> Led5
                [] m = "PUT" -> Led1
                [] m = "MERGE" -> led

ChangeMode ==
  /\ mode' \in {Up[mode], Down[mode]}
  /\ InitState
  /\ led' = ModeLed(mode')
  /\ line2' = 0
  /\ UNCHANGED <<editor, table_index, fnd>>

----------------------------------------------------------------------------
(* The editors.                                                            *)

\* add_char_and_update wraps around before it writes (mutant: it does not wrap).
CursorNoWrap(n) == IF n >= 4 THEN 3 ELSE n
Cursor(n) == IF n >= 4 THEN 0 ELSE n

add_char_and_update(d) ==
  LET i == Cursor(next_index) IN
  /\ key' = [key EXCEPT ![i + 1] = d]
  /\ next_index' = i + 1
  /\ typed' = Append(IF Len(typed) = 4 THEN Tail(typed) ELSE typed, d)

\* Where a further character fits.
Fits(v) == Len(v) < MAX_LENGTH

\* process_value for button 1.
ToggleNumMode ==
  /\ num_mode' = ~num_mode
  /\ last_key' = 0
  /\ press_count' = 0
  /\ UNCHANGED value

\* In number mode, and the two cases of letter mode.
TypeNumber(b) ==
  /\ num_mode
  /\ value' = IF Fits(value) THEN Append(value, Digit(b)) ELSE value
  /\ last_key' = 0
  /\ press_count' = 0
  /\ UNCHANGED num_mode

Circulate(b) ==
  /\ ~num_mode /\ last_key = b /\ value # <<>>
  /\ press_count' = (press_count + 1) % Len(Row(b))
  /\ value' = [value EXCEPT ![Len(value)] = Row(b)[press_count' + 1]]
  /\ UNCHANGED <<num_mode, last_key>>

\* The button is remembered (mutant: only when it follows another letter button).
RemembersFirst(b) == IF last_key = 0 THEN b ELSE last_key
Remembers(b) == b

NewCharacter(b) ==
  /\ ~num_mode /\ ~(last_key = b /\ value # <<>>)
  /\ IF Fits(value)
     THEN value' = Append(value, Row(b)[1]) /\ press_count' = 0
     ELSE UNCHANGED <<value, press_count>>
  /\ last_key' = Remembers(b)
  /\ UNCHANGED num_mode

process_value(b) ==
  \/ b = 1 /\ ToggleNumMode
  \/ b \in 2..9 /\ (TypeNumber(b) \/ Circulate(b) \/ NewCharacter(b))

----------------------------------------------------------------------------
(* PUT mode.                                                               *)

\* print_fnd(key) after the key was edited (mutant: before).
FndBefore(old, new) == old
FndAfter(old, new) == new

\* A button, while the key is edited.
PutDigit(b) ==
  /\ mode = "PUT" /\ put_input_mode = "KEY"
  /\ add_char_and_update(b)
  /\ led' = Led34
  /\ fnd' = FndAfter(key, key')
  /\ line2' = Len(value)
  /\ UNCHANGED <<mode, put_input_mode, value, num_mode, last_key, press_count, table_index>>

\* A button, while the value is edited.
PutCharacter(b) ==
  /\ mode = "PUT" /\ put_input_mode = "VALUE"
  /\ process_value(b)
  /\ fnd' = key
  /\ line2' = Len(value')
  /\ UNCHANGED <<mode, put_input_mode, key, next_index, table_index, led, typed>>

\* RESET: from the key to the value and back.
PutReset ==
  /\ mode = "PUT"
  /\ put_input_mode' = IF put_input_mode = "KEY" THEN "VALUE" ELSE "KEY"
  /\ led' = IF put_input_mode' = "KEY" THEN Led34 ELSE Led78
  /\ fnd' = key
  /\ line2' = 0
  /\ UNCHANGED <<mode, key, value, editor, table_index, typed>>

\* ONE_LONG clears what was typed.
PutClear ==
  /\ mode = "PUT"
  /\ InitState
  /\ led' = Led1
  /\ fnd' = key'
  /\ line2' = 0
  /\ UNCHANGED <<mode, editor, table_index>>

\* The length of "(%d, %s,%s)".
PutLine(i, v) == 1 + Digits(i) + 2 + 4 + 1 + Len(v) + 1

\* FOUR_SIX submits; the pair is printed on the LCD.
Submittable == key # INITIAL_KEY /\ value # INITIAL_VALUE
PutSubmit ==
  /\ mode = "PUT"
  /\ Submittable
  /\ table_index <= MaxPuts
  /\ table_index' = table_index + 1
  /\ line2' = PutLine(table_index, value)
  /\ led' = Led1
  /\ fnd' = key
  /\ UNCHANGED <<mode, put_input_mode, key, value, editor, typed>>

----------------------------------------------------------------------------
(* GET mode.                                                               *)

GetDigit(b) ==
  /\ mode = "GET"
  /\ add_char_and_update(b)
  /\ led' = Led34
  /\ fnd' = FndAfter(key, key')
  /\ line2' = 0
  /\ UNCHANGED <<mode, put_input_mode, value, num_mode, last_key, press_count, table_index>>

\* ONE_LONG and FOUR_SIX are switches too, but no digits.
GetOther ==
  /\ mode = "GET"
  /\ led' = Led34
  /\ fnd' = key
  /\ line2' = 0
  /\ UNCHANGED <<mode, put_input_mode, key, value, editor, table_index, typed>>

\* RESET: get_pair; "Error", or "(%d,%d,%s)" with the pair, which this run or an
\* earlier one has put.
GetSubmit ==
  /\ mode = "GET"
  /\ key # INITIAL_KEY
  /\ \/ line2' = 5
     \/ \E i \in 1..MaxPuts, n \in 1..MAX_LENGTH :
          line2' = 1 + Digits(i) + 1 + Digits(KeyNumber(key)) + 1 + n + 1
  /\ led' = Led5
  /\ fnd' = key
  /\ UNCHANGED <<mode, put_input_mode, key, value, editor, table_index, typed>>

\* MERGE mode: RESET with two tables prints the name "<number>.sst" of the new
\* one; every other input is ignored.
FileDigits == 4     \* bound: digits in the number of a file
MergeReset ==
  /\ mode = "MERGE"
  /\ line2' \in {d + 4 : d \in 1..FileDigits}
  /\ UNCHANGED <<mode, put_input_mode, key, value, editor, table_index, fnd, led, typed>>

\* A line that is too long ends the program: main has written behind the end of
\* line2, and print_lcd asserts.
Next ==
  /\ line2 <= LINE_BUFF
  /\ \/ ChangeMode \/ PutReset \/ PutClear \/ PutSubmit
     \/ GetOther \/ GetSubmit \/ MergeReset
     \/ \E b \in Buttons : PutDigit(b) \/ PutCharacter(b) \/ GetDigit(b)

Spec == Init /\ [][Next]_vars

----------------------------------------------------------------------------
(* Properties.                                                             *)

\* The key holds the digits typed since it was cleared, the last four at most:
\* the digit typed i-th last is i positions before the cursor, around the end.
\* (add_char_and_update, whose cursor outlives the key.)
KeyHoldsTyped ==
  /\ \A i \in 1..Len(typed) :
       key[((next_index - i + 4) % 4) + 1] = typed[Len(typed) - i + 1]
  /\ Cardinality({p \in 1..4 : key[p] # 0}) = Len(typed)

\* The FND shows the key, except that after a change of mode it may still show
\* the key before it until something is typed.
FndFollowsKey == fnd # key => key = INITIAL_KEY

\* The LEDs tell in PUT mode which of the two is being edited: 3 and 4 only blink
\* for the key, 7 and 8 only for the value.
LedTellsEditor ==
  mode = "PUT" => /\ led = Led34 => put_input_mode = "KEY"
                  /\ led = Led78 => put_input_mode = "VALUE"
                  /\ led # Led5

\* The FND and the LEDs tell the truth about the editor, through every change of
\* mode, clear and submit.
DisplaysTellTruth == FndFollowsKey /\ LedTellsEditor

\* What is printed fits in a line of the LCD, which print_lcd asserts (io.c:287-290).
\* It does not: "(100, 1234,abcde)" has 17 characters, for a line of 16.
LinesFit == line2 <= LINE_BUFF

\* A line that does not fit is that of a pair whose index has three digits when it is
\* put, or four when it is found: everything else that is printed fits, where a line
\* has 11 characters more than a value (16 and 5 in the code).
OverrunsFrom100 ==
  [][~LinesFit' /\ line2' # line2 =>
       \/ PutSubmit /\ table_index >= 100
       \/ GetSubmit /\ MaxPuts >= 1000]_vars

\* A press of a button in letter mode shows one of the letters of that button.
\* (Not for buttons 7 and 9, whose rows have no NUL.)
ShowsOwnLetters ==
  \A b \in Buttons \ {7, 9} :
    PutCharacter(b) /\ ~num_mode /\ value' # value =>
      value'[Len(value')] \in Letters(b)

\* A press that replaces the last character replaces a letter of the same button,
\* whatever was typed or cleared before.  (Not in a full value: there a press that
\* adds nothing still sets last_key.)
CirculatesOwnLetter ==
  \A b \in Buttons \ {7, 9} :
    /\ PutCharacter(b) /\ value' # value
    /\ Len(value') = Len(value) /\ Len(value) < MAX_LENGTH
    => value[Len(value)] \in Letters(b)

\* The letter editor shows and replaces letters of the button that is pressed, and
\* no others.
LettersOfButton == [][ShowsOwnLetters /\ CirculatesOwnLetter]_vars

=============================================================================
