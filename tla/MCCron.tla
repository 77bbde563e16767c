------------------------------ MODULE MCCron ------------------------------
(* A calendar small enough to look at every minute of it.                  *)
EXTENDS Cron

P(form, a, b, step) == [form |-> form, a |-> a, b |-> b, step |-> step]
All == {P("all", 0, 0, NoStep)}

\* Five kinds of text per field, one of them a list, one of them invalid.
SmallFields == <<
  {All, {P("value", 1, 0, NoStep)}, {P("value", 2, 0, NoStep)}, {P("all", 0, 0, 2)},
   {P("value", 1, 0, 1)}},
  {All, {P("value", 0, 0, NoStep), P("value", 2, 0, NoStep)}, {P("range", 1, 2, NoStep)},
   {P("value", 2, 0, NoStep)}, {P("range", 2, 1, NoStep)}},
  {All, {P("value", 3, 0, NoStep)}, {P("range", 1, 3, 2)}, {P("value", 0, 0, NoStep)}},
  {All, {P("value", 2, 0, NoStep)}},
  {All, {P("value", 1, 0, NoStep)}, {P("all", 0, 0, 2)}}>>

\* Two hours ahead, and two and a half.
TwoZones == {4, 5}
=============================================================================
