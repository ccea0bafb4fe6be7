------------------------------- MODULE MCFtdc -------------------------------
EXTENDS Ftdc

T(truth, n) == [truth |-> truth, number |-> n]

\* With 2 bits of megabyte and 6 bits of long long, 7 megabytes fit and 8 do
\* not.
MCText == {T("yes", 1), T("no", 0), T("neither", 7), T("neither", 8),
           T("neither", NotANumber)}

MCLoadArguments ==
  {<<>>,
   << <<"interval-ms", T("no", 0)>>, <<"enabled", T("no", 0)>>,
      <<"enabled", T("yes", 1)>> >>,
   << <<"enabled", T("no", 0)>>, <<"max-dir-mb", T("neither", 7)>> >>,
   << <<"enabled", T("neither", 7)>> >>}
=============================================================================
