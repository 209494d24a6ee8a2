----------------------------- MODULE LwtTermios -----------------------------
(***************************************************************************)
(* The conversion between struct termios and the OCaml record terminal_io  *)
(* of unix_termios_conversion.c, and the jobs that use it: tcgetattr gives *)
(* the record, the program changes it, and tcsetattr reads the status      *)
(* again, puts the record into it and sets it.  A flag word is the set of  *)
(* its bits; a speed of the system is "B" with its rate.                   *)
(***************************************************************************)
EXTENDS Integers, Sequences
LOCAL INSTANCE SequencesExt

CONSTANT Rates            \* of the speeds the terminal may have, some of
                          \* which the table does not know

ASSUME TermiosAssumption == Rates \subseteq Nat

VARIABLES terminal_status,   \* of the terminal: struct termios
          terminal_io,       \* the record of the program
          current,           \* is it what tcgetattr or tcsetattr left?
          changes            \* how many of its fields the program changed

termiosVars == <<terminal_status, terminal_io, current, changes>>

Fields == {"Iflags", "Oflags", "Cflags", "Lflags"}
Bools(field, masks) ==
    [i \in DOMAIN masks |-> [kind |-> "Bool", field |-> field, msk |-> {masks[i]}]]
Enum(field, ofs, msk, values) ==
    [kind |-> "Enum", field |-> field, ofs |-> ofs, msk |-> msk, values |-> values]
Speed(which) == [kind |-> "Speed", which |-> which]
Chars(which) == [i \in DOMAIN which |-> [kind |-> "Char", which |-> which[i]]]

terminal_io_descr ==
    Bools("Iflags", <<"IGNBRK", "BRKINT", "IGNPAR", "PARMRK", "INPCK", "ISTRIP", "INLCR",
                      "IGNCR", "ICRNL", "IXON", "IXOFF">>)
      \o Bools("Oflags", <<"OPOST">>)
      \o <<Speed("Output"), Speed("Input"),
           Enum("Cflags", 5, {"CS_1", "CS_2"}, <<{}, {"CS_1"}, {"CS_2"}, {"CS_1", "CS_2"}>>),
           Enum("Cflags", 1, {"CSTOPB"}, <<{}, {"CSTOPB"}>>)>>
      \o Bools("Cflags", <<"CREAD", "PARENB", "PARODD", "HUPCL", "CLOCAL">>)
      \o Bools("Lflags", <<"ISIG", "ICANON", "NOFLSH", "ECHO", "ECHOE", "ECHOK", "ECHONL">>)
      \o Chars(<<"VINTR", "VQUIT", "VERASE", "VKILL", "VEOF", "VEOL", "VMIN", "VTIME",
                 "VSTART", "VSTOP">>)

(* The rates that are known on all systems, and the extensions.            *)
bauds == {50, 75, 110, 134, 150, 200, 300, 600, 1200, 1800, 2400, 4800, 9600, 19200, 38400,
          57600, 115200, 230400, 0}
         \cup {460800, 500000, 576000, 921600, 1000000, 1152000, 1500000, 2000000, 2500000,
               3000000, 3500000, 4000000}
         \cup {7200, 14400, 28800, 76800} \cup {128000, 256000}
speedtable == {[speed |-> <<"B", baud>>, baud |-> baud] : baud \in bauds}
-----------------------------------------------------------------------------
choose_field(status, field) == status.flags[field]

EncodeSpeed(speed) ==
    IF \E row \in speedtable : row.speed = speed
    THEN (CHOOSE row \in speedtable : row.speed = speed).baud
    ELSE 9600

EncodeEntry(entry, status) ==
    CASE entry.kind = "Bool" -> choose_field(status, entry.field) \cap entry.msk # {}
      [] entry.kind = "Enum" ->
            entry.ofs - 1 + CHOOSE i \in DOMAIN entry.values :
                entry.values[i] = choose_field(status, entry.field) \cap entry.msk
      [] entry.kind = "Speed" -> EncodeSpeed(status.speed[entry.which])
      [] entry.kind = "Char" -> status.c_cc[entry.which]

encode_terminal_status(status) ==
    [i \in DOMAIN terminal_io_descr |-> EncodeEntry(terminal_io_descr[i], status)]

\* Mutant: the bits of the mask are not cleared first.
SetBits_or(status, field, msk, bits) ==
    [status EXCEPT !.flags[field] = @ \cup bits]

SetBits(status, field, msk, bits) ==
    [status EXCEPT !.flags[field] = (@ \ msk) \cup bits]

(* The new status, or none if the value is not valid.                      *)
DecodeEntry(status, entry, v) ==
    CASE entry.kind = "Bool" ->
            {SetBits(status, entry.field, entry.msk, IF v THEN entry.msk ELSE {})}
      [] entry.kind = "Enum" ->
            {SetBits(status, entry.field, entry.msk, entry.values[i]) :
                i \in {v - entry.ofs + 1} \cap DOMAIN entry.values}
      [] entry.kind = "Speed" ->
            {[status EXCEPT !.speed[entry.which] = row.speed] :
                row \in {row \in speedtable : row.baud = v}}
      [] entry.kind = "Char" -> {[status EXCEPT !.c_cc[entry.which] = v]}

(* An entry that is not valid ends the conversion.                         *)
decode_terminal_status(status, record) ==
    LET decode(new, i) == UNION {DecodeEntry(s, terminal_io_descr[i], record[i]) : s \in new}
    IN  FoldLeft(decode, {status}, [i \in DOMAIN record |-> i])
-----------------------------------------------------------------------------
(* The jobs; a status has bits that the record does not show.              *)
EmptyStatus(hidden, rate) ==
    [flags |-> [f \in Fields |-> IF hidden THEN {"hidden"} ELSE {}],
     speed |-> [which \in {"Input", "Output"} |-> <<"B", rate>>],
     c_cc |-> [c \in {"VINTR", "VQUIT", "VERASE", "VKILL", "VEOF", "VEOL", "VMIN", "VTIME",
                      "VSTART", "VSTOP"} |-> 0]]

TermiosInit ==
    /\ terminal_status \in {EmptyStatus(hidden, rate) : hidden \in BOOLEAN, rate \in Rates}
    /\ terminal_io = encode_terminal_status(terminal_status)
    /\ current = TRUE
    /\ changes = 0

tcgetattr ==
    /\ terminal_io' = encode_terminal_status(terminal_status)
    /\ current' = TRUE
    /\ UNCHANGED <<terminal_status, changes>>

tcsetattr ==
    /\ terminal_status' \in decode_terminal_status(terminal_status, terminal_io)
    /\ current' = TRUE
    /\ UNCHANGED <<terminal_io, changes>>

Values(entry) ==
    CASE entry.kind = "Bool" -> BOOLEAN
      [] entry.kind = "Enum" -> (entry.ofs - 1)..(entry.ofs + Len(entry.values))
      [] entry.kind = "Speed" -> Rates
      [] entry.kind = "Char" -> {0, 255}

change ==
    /\ changes < 2
    /\ \E i \in DOMAIN terminal_io :
          \E v \in Values(terminal_io_descr[i]) \ {terminal_io[i]} :
              terminal_io' = [terminal_io EXCEPT ![i] = v]
    /\ current' = FALSE
    /\ changes' = changes + 1
    /\ UNCHANGED terminal_status

TermiosNext == tcgetattr \/ tcsetattr \/ change
TermiosSpec == TermiosInit /\ [][TermiosNext]_termiosVars
-----------------------------------------------------------------------------
(* After tcgetattr and after tcsetattr the record is what the terminal is: *)
(* what was set is read again, field by field; and what the record does    *)
(* not show is left as it was (encode_terminal_status,                     *)
(* decode_terminal_status).                                                *)
RecordIsStatus ==
    /\ current => terminal_io = encode_terminal_status(terminal_status)
    /\ \A f, g \in Fields :
           "hidden" \in terminal_status.flags[f] <=> "hidden" \in terminal_status.flags[g]
=============================================================================
