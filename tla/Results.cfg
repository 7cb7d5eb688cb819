\* Blocks of up to three transactions (three is the smallest tree whose
\* split is uneven), two codes (0 is omitted by the encoding), two GasUsed
\* values, an empty and a non-empty Log.
CONSTANTS
  Codes = {0, 1}
  Gas = {1, 2}
  Logs = {"", "x"}
  MaxTxs = 3
SPECIFICATION Spec
INVARIANTS
  TypeOK
  HashAgreesIffDeterministicFieldsAgree
  EveryResultProvable
