-------------------------------- MODULE Units --------------------------------
(***************************************************************************)
(* The values of PostgreSQL's integer settings, which have a unit, and how *)
(* Patroni reads and shows them (patroni/utils.py): a value that it reads  *)
(* otherwise than PostgreSQL looks changed at every reload, and a restart  *)
(* is reported as pending that no restart ends (reload_config).            *)
(* Values are fractions, so the model has none of the rounding of floats.  *)
(***************************************************************************)
EXTENDS Integers, Sequences

CONSTANTS
  K,          \* bytes in a kB and so on: 1024, less in small instances
  MaxValue    \* bound of the values

VARIABLE setting  \* the value written in the configuration, its unit, and the unit of the setting

(***************************************************************************)
(* Fractions <<n, d>>, which need not be reduced                           *)
(***************************************************************************)
Times(x, y) == <<x[1] * y[1], x[2] * y[2]>>
Over(x, y) == <<x[1] * y[2], x[2] * y[1]>>
\* round: to the nearest integer, to the even one of two.
Round(x) ==
  LET q == x[1] \div x[2]
      r == x[1] % x[2]
  IN  IF 2 * r > x[2] \/ (2 * r = x[2] /\ q % 2 = 1) THEN q + 1 ELSE q

(***************************************************************************)
(* The units, largest first, and what each is in the units of settings.    *)
(***************************************************************************)
Memory == <<"TB", "GB", "MB", "kB", "B">>
Time == <<"d", "h", "min", "s", "ms", "us">>
Table(unit) == IF unit \in {"B", "kB", "MB"} THEN Memory ELSE Time
Whole(n) == <<n, 1>>
Part(n) == <<1, n>>
In ==
  [MB  |-> [TB |-> Whole(K * K), GB |-> Whole(K), MB |-> Whole(1), kB |-> Part(K), B |-> Part(K * K)],
   kB  |-> [TB |-> Whole(K * K * K), GB |-> Whole(K * K), MB |-> Whole(K), kB |-> Whole(1),
            B |-> Part(K)],
   B   |-> [TB |-> Whole(K * K * K * K), GB |-> Whole(K * K * K), MB |-> Whole(K * K),
            kB |-> Whole(K), B |-> Whole(1)],
   min |-> [d |-> Whole(60 * 24), h |-> Whole(60), min |-> Whole(1), s |-> Part(60),
            ms |-> Part(1000 * 60), us |-> Part(1000 * 1000 * 60)],
   s   |-> [d |-> Whole(60 * 60 * 24), h |-> Whole(60 * 60), min |-> Whole(60), s |-> Whole(1),
            ms |-> Part(1000), us |-> Part(1000 * 1000)],
   ms  |-> [d |-> Whole(1000 * 60 * 60 * 24), h |-> Whole(1000 * 60 * 60), min |-> Whole(1000 * 60),
            s |-> Whole(1000), ms |-> Whole(1), us |-> Part(1000)]]
get_conversion_table(unit, base) == In[base][unit]
round_order ==
  [TB |-> "GB", GB |-> "MB", MB |-> "kB", kB |-> "B",
   d |-> "h", h |-> "min", min |-> "s", s |-> "ms", ms |-> "us"]
IsLast(unit) == unit \notin DOMAIN round_order
Next(unit) == round_order[unit]

(***************************************************************************)
(* What Patroni makes of a value. A base unit is a number and a unit.      *)
(***************************************************************************)
\* Mutant: rounded to the unit itself.
RoundToUnit(value, unit, base) ==
  LET m == get_conversion_table(unit, base.unit) IN Times(<<Round(Over(value, m)), 1>>, m)
\* A fraction of a unit is rounded to the next smaller unit.
RoundTo(value, unit, base) ==
  IF IsLast(unit) THEN value
  ELSE LET m == get_conversion_table(Next(unit), base.unit)
       IN  Times(<<Round(Over(value, m)), 1>>, m)
convert_to_base_unit(value, unit, base) ==
  RoundTo(Over(Times(value, get_conversion_table(unit, base.unit)), <<base.times, 1>>), unit, base)
parse_int(value, unit, base) == Round(convert_to_base_unit(value, unit, base))

\* The largest unit the value is a whole number of.
convert_int_from_base_unit(value, base) ==
  LET t == Table(base.unit)
      Fits(unit) ==
        LET m == get_conversion_table(unit, base.unit)
        IN  m[1] <= m[2] \/ (value * base.times) % m[1] = 0
      i == CHOOSE k \in DOMAIN t : Fits(t[k]) /\ \A l \in 1..(k - 1) : ~Fits(t[l])
  IN  [value |-> <<Round(Over(<<value * base.times, 1>>, get_conversion_table(t[i], base.unit))), 1>>,
       unit |-> t[i]]
\* get_param_diff, maybe_convert_from_base_unit: zero is shown as it is.
Shown(value, base) ==
  IF value = 0 THEN [value |-> <<0, 1>>, unit |-> base.unit] ELSE convert_int_from_base_unit(value, base)

\* A value of pg_settings, without a unit, and one of the configuration.
compare_values(value, config, base) == value = parse_int(config.value, config.unit, base)

(***************************************************************************)
(* PostgreSQL's reading (convert_to_base_unit in guc.c): the next smaller  *)
(* unit is one of the whole base unit.                                     *)
(***************************************************************************)
PostgresReads(value, unit, base) ==
  LET v == Over(Times(value, get_conversion_table(unit, base.unit)), <<base.times, 1>>)
      m == Over(get_conversion_table(Next(unit), base.unit), <<base.times, 1>>)
  IN  Round(IF IsLast(unit) THEN v ELSE Times(<<Round(Over(v, m)), 1>>, m))

(***************************************************************************)
(* Any setting with any value                                              *)
(***************************************************************************)
Bases ==
  {[times |-> n, unit |-> u] : n \in {1, 8, 16}, u \in {"kB", "MB"}}
  \cup {[times |-> 1, unit |-> u] : u \in {"B", "ms", "s", "min"}}
UnitsInit ==
  \E b \in Bases : \E u \in DOMAIN In[b.unit] :
    setting = [value |-> <<0, 1>>, unit |-> u, base |-> b]
Write ==
  \E d \in {1, 2, 10} : setting' = [setting EXCEPT !.value = <<(@[1] + 1) % (MaxValue + 1), d>>]

\* A setting means to Patroni what it means to PostgreSQL, if it is a whole number of
\* its unit or the base unit is a plain one (parse_int); so it compares equal with
\* pg_settings, and what is shown of it, written in the configuration, is that setting
\* (convert_int_from_base_unit, compare_values in reload_config).
SettingsAgree ==
  setting.value[2] = 1 \/ setting.base.times = 1 =>
    LET v == PostgresReads(setting.value, setting.unit, setting.base)
    IN  /\ compare_values(v, setting, setting.base)
        /\ compare_values(v, Shown(v, setting.base), setting.base)
=============================================================================
