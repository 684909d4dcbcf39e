CONSTANTS
    Callers = {"search", "job"}
    ClassOf <- MCClassOf
    Flights = {f1, f2}
    Permits <- MCPermits
    Worlds <- MCWorlds
    Trip = 1
    R = 1
    E = 1
    Kind = "deepseek"
SPECIFICATION Spec
INVARIANT BooksBalance
PROPERTIES CallsEnd CloseReturns
