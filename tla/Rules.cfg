SPECIFICATION Spec
CONSTANT None = None
INVARIANTS
  JudgementIsSound
  ScheduleIsSound
  OrdersAreSound
  FiguresAreSound
  RowsAreSound
  ReadingsAreSound
  ListsAreSound
CHECK_DEADLOCK FALSE
