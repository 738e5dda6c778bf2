\* One level whose text changes while the worker reads it.
SPECIFICATION Spec
CONSTANT Texts <- MCLow
PROPERTY SpanHasMinimum
