\* One item, sent to a role on plane 0: it never reaches the handler.
CONSTANTS
    MaxItems = 1
    QueueCap = 2
    Reorder = FALSE
    Plane = 0
    Topic = 1
    Source = 7
    ItemAt = 0
SPECIFICATION Spec
PROPERTY AllHandled
